---------------------------- MODULE Spec2Model ----------------------------
(***************************************************************************)
(* A model of the CI bot of gh-actions-poc (tool/ci/pkg/bot):              *)
(*   - the workflow-run reconciler (DismissStaleWorkflowRuns and helpers), *)
(*   - the review aggregation and approval evaluation (mostRecent,         *)
(*     approved, hasApproved),                                             *)
(*   - the check of a pull request (check, verifyCommit,                   *)
(*     invalidateApprovals),                                               *)
(*   - the approval of a workflow run by a comment                         *)
(*     (HasWorkflowRunApproval, commentPermitsRun).                        *)
(* The repository host (GitHub) is modelled by the state it keeps          *)
(* (workflows, workflow runs, reviews) and by host calls that either       *)
(* succeed or fail.                                                        *)
(***************************************************************************)
EXTENDS Integers, Sequences, FiniteSets, TLC

(***************************************************************************)
(* Bounds of the model.                                                    *)
(***************************************************************************)
\* Workflow runs the host creates in one behaviour.
MaxRuns == 3
\* Reviews in the list handed to mostRecent.
MaxReviews == 3
\* Logins in a list of required reviewers.
MaxRequired == 4
\* Reviews ListReviews returns for the pull request.
MaxFetched == 2
\* Comments ListComments returns for the pull request.
MaxComments == 2
MaxPulls == 2

(***************************************************************************)
(* Values.                                                                 *)
(***************************************************************************)
\* ci.CheckWorkflow: the name of the workflow whose runs are pruned.
CheckWorkflow == "Check"
\* ci.AssignWorkflow.
AssignWorkflow == "Assign"

\* The branches runs are created on.
Branches == {"b1", "b2"}

\* The workflow lists a repository may hold: none named Check, Check alone,
\* Check behind another workflow, and two workflows both named Check.
WorkflowLists ==
    { << [ID |-> 1, Name |-> AssignWorkflow] >>,
      << [ID |-> 1, Name |-> CheckWorkflow] >>,
      << [ID |-> 1, Name |-> AssignWorkflow], [ID |-> 2, Name |-> CheckWorkflow] >>,
      << [ID |-> 2, Name |-> CheckWorkflow], [ID |-> 1, Name |-> CheckWorkflow] >> }

WorkflowIDs == {1, 2}

\* The error values of trace: nil, NotFound, and a wrapped failure of a host
\* call (At: the run the failing delete call was for, 0 otherwise).
Nil == [Kind |-> "nil", At |-> 0]
NotFound == [Kind |-> "NotFound", At |-> 0]
HostError(call, at) == [Kind |-> call, At |-> at]

VARIABLES
    \* ---- the host ----
    workflows,      \* the repository's workflows, as ListWorkflows returns them
    hostRuns,       \* the workflow runs on the host
    hostClock,      \* the creation time of the run created last
    \* ---- one invocation of DismissStaleWorkflowRuns ----
    pc,             \* where the invocation is
    branch,         \* its branch argument
    workflow,       \* the ID of the workflow getWorkflow returned
    runs,           \* the sorted runs getSortedWorkflowRuns returned
    i,              \* the loop index of deleteRuns
    err,            \* the error the invocation returned
    deleteCalls,    \* the run IDs deleteRun was called for, in call order
    ctxDone,        \* the context's deadline has passed
    hist,           \* history: the previous invocation and runs created since
    \* ---- one evaluation of mostRecent or of approved ----
    epc,                    \* "start", then "done"
    currentReviews,         \* mostRecent's argument
    required,               \* approved's list of required reviewers
    mostRecentReviews,      \* mostRecent's result, approved's argument
    waitingOnApprovalsFrom, \* approved's list of missing approvals
    approvedErr,            \* the error approved returned
    \* ---- the pull request environment and one invocation of check ----
    Reviewers,      \* the map from author to required reviewers
    pr,             \* the pull request metadata
    hostReviews,    \* the pull request's reviews on the host, as ListReviews returns them
    cpc,            \* where the invocation is
    verifyErr,      \* the error verifyCommit returned
    pos,            \* invalidateApprovals' position in the most recent reviews
    checkErr,       \* the error check returned
    calls,          \* the host calls check has made, in order
    comparison,     \* the host's comparison of base and head, once it has answered
    commit,         \* the host's verification of the head commit, once it has answered
    dismissed,      \* history: the reviews dismissed by earlier invocations, by this one
    \* ---- one invocation of HasWorkflowRunApproval ----
    comments,       \* the pull request's comments on the host, as ListComments returns them
    now,            \* the time of the invocation
    ppc,            \* where the invocation is
    comment,        \* the position of the loop in the comments
    approvalErr,    \* the error the invocation returned
    commentCalls,   \* the host calls the invocation has made, in order
    \* ---- one invocation of ReRunWorkflows ----
    rpc,            \* where the invocation is
    rerunName,      \* the name of the workflow it is at
    rerunWorkflow,  \* the ID of the workflow getWorkflow returned
    rerunRuns,      \* the sorted runs getSortedWorkflowRuns returned
    rerunCalls,     \* the workflows and runs RerunWorkflowByID was called for, in order
    rerunErr,       \* the error the invocation returned
    \* ---- one invocation of DimissStaleWorkflowRunsForExternalContributors ----
    pullReqs,       \* the open pull requests of the repository, as the host lists them
    spc,            \* where the invocation is
    pull,           \* the position of the loop in the pull requests
    sweepErr,       \* the error the invocation returned
    pruned,         \* the branches DismissStaleWorkflowRuns was invoked with, in order
    runs0           \* history: the workflow runs on the host when the invocation began

pruneVars == << workflows, hostRuns, hostClock, pc, branch, workflow, runs, i,
                err, deleteCalls, ctxDone, hist >>

evalVars == << epc, currentReviews, required, mostRecentReviews,
               waitingOnApprovalsFrom, approvedErr >>

\* evalVars without mostRecentReviews.
evalRest == << epc, currentReviews, required, waitingOnApprovalsFrom, approvedErr >>

checkVars == << Reviewers, pr, hostReviews, cpc, verifyErr, pos, checkErr, calls,
                comparison, commit, dismissed >>

permitVars == << comments, now, ppc, comment, approvalErr, commentCalls >>

rerunVars == << rpc, rerunName, rerunWorkflow, rerunRuns, rerunCalls, rerunErr >>

sweepVars == << pullReqs, spc, pull, sweepErr, pruned, runs0 >>

vars == << pruneVars, evalVars, checkVars, permitVars, rerunVars, sweepVars >>

(***************************************************************************)
(* Helpers on sequences.                                                   *)
(***************************************************************************)
Range(s) == { s[k] : k \in DOMAIN s }

\* The sequences that list every element of the finite set S exactly once.
Perms(S) ==
    { s \in [1..Cardinality(S) -> S] : \A a, b \in DOMAIN s : a # b => s[a] # s[b] }

(***************************************************************************)
(* The workflow-run reconciler.                                            *)
(***************************************************************************)

\* The less function of the sort (mutant: newest first).
BeforeReversed(r1, r2) == r1.CreatedAt > r2.CreatedAt
\* getSortedWorkflowRuns: the less function handed to sort.Slice.
Before(r1, r2) == r1.CreatedAt < r2.CreatedAt

\* A result of sort.Slice(runs, Before): the elements reordered so that no
\* element is Before one that precedes it.  sort.Slice is not stable, so runs
\* with equal creation times may come out in any order.
IsSorted(s) == \A a, b \in DOMAIN s : a < b => ~Before(s[b], s[a])
SortSlice(S) == { s \in Perms(S) : IsSorted(s) }

\* ListWorkflowRunsByID (mutant: the branch option is not set).
ListWorkflowRunsAll(workflowID, b) ==
    { r \in hostRuns : r.WorkflowID = workflowID }
\* ListWorkflowRunsByID with ListWorkflowRunsOptions{Branch: b}: the runs of
\* the workflow, on branch b unless b is empty.
ListWorkflowRunsByID(workflowID, b) ==
    { r \in hostRuns : r.WorkflowID = workflowID /\ (b = "" \/ r.HeadBranch = b) }

\* getWorkflow (mutant: falls back to the first workflow instead of NotFound).
getWorkflowFirst(list, name) ==
    IF list = << >> THEN 0 ELSE list[1].ID
\* getWorkflow's loop: the ID of the first workflow with the name, 0 if none.
getWorkflowLoop(list, name) ==
    IF \E k \in DOMAIN list : list[k].Name = name
    THEN list[CHOOSE k \in DOMAIN list :
                /\ list[k].Name = name
                /\ \A j \in 1..(k - 1) : list[j].Name # name].ID
    ELSE 0

\* deleteRuns' loop condition (mutant: the most recent run is deleted too).
deleteRunsAll(idx, rs) == idx < Len(rs)
\* deleteRuns' loop condition, i < len(runs)-1.
deleteRunsCond(idx, rs) == idx < Len(rs) - 1

\* A host call can succeed only while the context is live.
CallSucceeds == ~ctxDone

\* DismissStaleWorkflowRuns is invoked with a branch.
DismissStaleWorkflowRuns(b) ==
    /\ pc \in {"idle", "done"}
    /\ pc' = "getWorkflow"
    /\ branch' = b
    /\ workflow' = 0
    /\ runs' = << >>
    /\ i' = 0
    /\ err' = Nil
    /\ deleteCalls' = << >>
    /\ ctxDone' = FALSE
    /\ hist' = [hist EXCEPT !.second = hist.prevOk /\ hist.prevBranch = b,
                            !.failed = 0,
                            !.removed = {}]
    /\ UNCHANGED << workflows, hostRuns, hostClock >>

\* The invocation returns e.  (hist notes whether it completed without error
\* with no run created since its runs were listed, and a failed deleteRun.)
Return(e) ==
    /\ pc' = "done"
    /\ err' = e
    /\ hist' = [hist EXCEPT !.prevOk = (e = Nil /\ ~hist.created),
                            !.prevBranch = branch,
                            !.failed = e.At]

\* getWorkflow: ListWorkflows succeeded.
getWorkflow ==
    /\ pc = "getWorkflow"
    /\ CallSucceeds
    /\ LET id == getWorkflowLoop(workflows, CheckWorkflow) IN
         IF id = 0
         THEN /\ Return(NotFound)
              /\ UNCHANGED workflow
         ELSE /\ workflow' = id
              /\ pc' = "getSortedWorkflowRuns"
              /\ UNCHANGED << err, hist >>
    /\ UNCHANGED << workflows, hostRuns, hostClock, branch, runs, i,
                    deleteCalls, ctxDone >>

\* getWorkflow: ListWorkflows failed.
getWorkflowFails ==
    /\ pc = "getWorkflow"
    /\ Return(HostError("ListWorkflows", 0))
    /\ UNCHANGED << workflows, hostRuns, hostClock, branch, workflow, runs, i,
                    deleteCalls, ctxDone >>

\* getSortedWorkflowRuns: ListWorkflowRunsByID succeeded; the runs are sorted.
getSortedWorkflowRuns ==
    /\ pc = "getSortedWorkflowRuns"
    /\ CallSucceeds
    /\ \E s \in SortSlice(ListWorkflowRunsByID(workflow, branch)) : runs' = s
    /\ pc' = "deleteRuns"
    /\ hist' = [hist EXCEPT !.created = FALSE]
    /\ UNCHANGED << workflows, hostRuns, hostClock, branch, workflow, i, err,
                    deleteCalls, ctxDone >>

\* getSortedWorkflowRuns: ListWorkflowRunsByID failed.
getSortedWorkflowRunsFails ==
    /\ pc = "getSortedWorkflowRuns"
    /\ Return(HostError("ListWorkflowRunsByID", 0))
    /\ UNCHANGED << workflows, hostRuns, hostClock, branch, workflow, runs, i,
                    deleteCalls, ctxDone >>

\* deleteRuns: one iteration whose deleteRun call succeeded.
deleteRun ==
    /\ pc = "deleteRuns"
    /\ deleteRunsCond(i, runs)
    /\ CallSucceeds
    /\ deleteCalls' = Append(deleteCalls, runs[i + 1].ID)
    /\ hostRuns' = { r \in hostRuns : r.ID # runs[i + 1].ID }
    /\ i' = i + 1
    /\ hist' = [hist EXCEPT !.removed = hist.removed \cup {runs[i + 1].ID}]
    /\ UNCHANGED << workflows, hostClock, pc, branch, workflow, runs, err,
                    ctxDone >>

\* What deleteRuns does with a failed deleteRun (mutant: logs and goes on).
deleteRunErrorSwallowed(e) ==
    /\ i' = i + 1
    /\ hist' = [hist EXCEPT !.failed = runs[i + 1].ID]
    /\ UNCHANGED << pc, err >>
\* deleteRuns: a failed deleteRun ends the loop and is returned.
deleteRunError(e) ==
    /\ Return(e)
    /\ UNCHANGED i

\* deleteRuns: one iteration whose deleteRun call failed.
deleteRunFails ==
    /\ pc = "deleteRuns"
    /\ deleteRunsCond(i, runs)
    /\ deleteCalls' = Append(deleteCalls, runs[i + 1].ID)
    /\ deleteRunError(HostError("DeleteRun", runs[i + 1].ID))
    /\ UNCHANGED << workflows, hostRuns, hostClock, branch, workflow, runs,
                    ctxDone >>

\* deleteRuns: the loop is over, nil is returned.
deleteRunsDone ==
    /\ pc = "deleteRuns"
    /\ ~deleteRunsCond(i, runs)
    /\ Return(Nil)
    /\ UNCHANGED << workflows, hostRuns, hostClock, branch, workflow, runs, i,
                    deleteCalls, ctxDone >>

\* The deadline of the invocation's context passes (main: workflowRunTimeout).
Timeout ==
    /\ pc \notin {"idle", "done"}
    /\ ~ctxDone
    /\ ctxDone' = TRUE
    /\ UNCHANGED << workflows, hostRuns, hostClock, pc, branch, workflow, runs,
                    i, err, deleteCalls, hist >>

\* The host creates a run: a workflow was triggered on a branch.  Creation
\* times never decrease; two runs may be created at the same time.
CreateRun ==
    /\ hist.nextID <= MaxRuns
    /\ \E w \in WorkflowIDs, b \in Branches, t \in {hostClock, hostClock + 1} :
         /\ t >= 1
         /\ hostRuns' = hostRuns \cup
               { [ID |-> hist.nextID, WorkflowID |-> w, HeadBranch |-> b, CreatedAt |-> t] }
         /\ hostClock' = t
    /\ hist' = [hist EXCEPT !.nextID = hist.nextID + 1,
                            !.created = TRUE,
                            !.prevOk = FALSE,
                            !.second = FALSE]
    /\ UNCHANGED << workflows, pc, branch, workflow, runs, i, err, deleteCalls,
                    ctxDone >>

\* No check is under way.
CheckIdle ==
    /\ Reviewers = << >>
    /\ pr = [Author |-> "", HeadSHA |-> "", BaseSHA |-> "", BranchName |-> ""]
    /\ hostReviews = << >>
    /\ cpc = "idle"
    /\ verifyErr = Nil
    /\ pos = 0
    /\ checkErr = Nil
    /\ calls = << >>
    /\ comparison = << >>
    /\ commit = << >>
    /\ dismissed = [prev |-> {}, cur |-> {}]

\* ReRunWorkflows has not been invoked.
RerunIdle ==
    /\ rpc = "idle"
    /\ rerunName = ""
    /\ rerunWorkflow = 0
    /\ rerunRuns = << >>
    /\ rerunCalls = << >>
    /\ rerunErr = Nil

\* DimissStaleWorkflowRunsForExternalContributors has not been invoked.
SweepIdle ==
    /\ pullReqs = << >>
    /\ spc = "idle"
    /\ pull = 0
    /\ sweepErr = Nil
    /\ pruned = << >>
    /\ runs0 = {}

\* HasWorkflowRunApproval has not been invoked.
PermitIdle ==
    /\ comments = << >>
    /\ now = 0
    /\ ppc = "idle"
    /\ comment = 0
    /\ approvalErr = Nil
    /\ commentCalls = << >>

\* No evaluation of mostRecent or approved is under way.
EvalIdle ==
    /\ epc = "idle"
    /\ currentReviews = << >>
    /\ required = << >>
    /\ mostRecentReviews = << >>
    /\ waitingOnApprovalsFrom = << >>
    /\ approvedErr = Nil

InitPrune ==
    /\ EvalIdle
    /\ CheckIdle
    /\ PermitIdle
    /\ RerunIdle
    /\ SweepIdle
    /\ workflows \in WorkflowLists
    /\ hostRuns = {}
    /\ hostClock = 0
    /\ pc = "idle"
    /\ branch = ""
    /\ workflow = 0
    /\ runs = << >>
    /\ i = 0
    /\ err = Nil
    /\ deleteCalls = << >>
    /\ ctxDone = FALSE
    /\ hist = [nextID |-> 1, created |-> FALSE, prevOk |-> FALSE,
               prevBranch |-> "", second |-> FALSE, failed |-> 0, removed |-> {}]

NextPrune ==
    \/ (\E b \in Branches : DismissStaleWorkflowRuns(b)) /\ UNCHANGED << evalVars, checkVars, permitVars, rerunVars, sweepVars >>
    \/ getWorkflow /\ UNCHANGED << evalVars, checkVars, permitVars, rerunVars, sweepVars >>
    \/ getWorkflowFails /\ UNCHANGED << evalVars, checkVars, permitVars, rerunVars, sweepVars >>
    \/ getSortedWorkflowRuns /\ UNCHANGED << evalVars, checkVars, permitVars, rerunVars, sweepVars >>
    \/ getSortedWorkflowRunsFails /\ UNCHANGED << evalVars, checkVars, permitVars, rerunVars, sweepVars >>
    \/ deleteRun /\ UNCHANGED << evalVars, checkVars, permitVars, rerunVars, sweepVars >>
    \/ deleteRunFails /\ UNCHANGED << evalVars, checkVars, permitVars, rerunVars, sweepVars >>
    \/ deleteRunsDone /\ UNCHANGED << evalVars, checkVars, permitVars, rerunVars, sweepVars >>
    \/ Timeout /\ UNCHANGED << evalVars, checkVars, permitVars, rerunVars, sweepVars >>
    \/ CreateRun /\ UNCHANGED << evalVars, checkVars, permitVars, rerunVars, sweepVars >>

SpecPrune == InitPrune /\ [][NextPrune]_vars

(***************************************************************************)
(* Review aggregation and approval evaluation.                             *)
(***************************************************************************)
\* ci.Approved: the state of an approving review.
Approved == "APPROVED"
ChangesRequested == "CHANGES_REQUESTED"

\* Reviewer logins, and the commits a review can be made against.
Logins == {"a", "b", "c"}
Commits == {"h1", "h2"}

\* A review as getReviews builds it from a fetched review.
Review(n, st, c, id, t) ==
    [name |-> n, status |-> st, commitID |-> c, id |-> id, submittedAt |-> t]

\* time.Time.After (mutants: a later-or-equal time; an earlier time).
AfterOrEqual(t1, t2) == t1 >= t2
IsBefore(t1, t2) == t1 < t2
\* mostRecent's comparison, currTime.After(*setTime).
After(t1, t2) == t1 > t2

\* mostRecent's loop: the map from reviewer name to review, m being the map
\* built from the reviews already seen.
RECURSIVE mostRecentMap(_, _)
mostRecentMap(reviews, m) ==
    IF reviews = << >> THEN m
    ELSE LET rev == Head(reviews) IN
         mostRecentMap(Tail(reviews),
            IF rev.name \notin DOMAIN m
            THEN [n \in DOMAIN m \cup {rev.name} |-> IF n = rev.name THEN rev ELSE m[n]]
            ELSE IF After(rev.submittedAt, m[rev.name].submittedAt)
                 THEN [m EXCEPT ![rev.name] = rev]
                 ELSE m)

\* mostRecent's results: the values of the map, in the order the iteration
\* over the map yields them (any order).
mostRecent(reviews) ==
    LET m == mostRecentMap(reviews, << >>) IN Perms({ m[n] : n \in DOMAIN m })

\* hasApproved (mutant: any review by the reviewer counts).
hasReviewed(reviewer, reviews) ==
    \E k \in DOMAIN reviews : reviews[k].name = reviewer
\* hasApproved: a review by the reviewer with the approved state exists.
hasApproved(reviewer, reviews) ==
    \E k \in DOMAIN reviews : reviews[k].name = reviewer /\ reviews[k].status = Approved

\* approved's loop: the required reviewers hasApproved is false for.
RECURSIVE waitingOn(_, _)
waitingOn(reviews, req) ==
    IF req = << >> THEN << >>
    ELSE (IF hasApproved(Head(req), reviews) THEN << >> ELSE << Head(req) >>)
            \o waitingOn(reviews, Tail(req))

\* strings.Join.
RECURSIVE Join(_, _)
Join(elems, sep) ==
    IF elems = << >> THEN ""
    ELSE IF Len(elems) = 1 THEN elems[1]
    ELSE elems[1] \o sep \o Join(Tail(elems), sep)

BadParameter(msg) == [Kind |-> "BadParameter", Msg |-> msg]

\* approved's switch (mutant: the last login joined by " and ", no comma).
approvedSwitchNoComma(waiting) ==
    IF Len(waiting) = 1
    THEN BadParameter("required reviewers have not yet approved, waiting on an approval from "
                        \o Join(waiting, ""))
    ELSE IF Len(waiting) >= 2
    THEN BadParameter("required reviewers have not yet approved, waiting for approvals from "
                        \o Join(SubSeq(waiting, 1, Len(waiting) - 1), ", ")
                        \o " and " \o waiting[Len(waiting)])
    ELSE Nil
\* approved's switch on the length of the waiting list.
approvedSwitch(waiting) ==
    IF Len(waiting) = 1
    THEN BadParameter("required reviewers have not yet approved, waiting on an approval from "
                        \o Join(waiting, ""))
    ELSE IF Len(waiting) = 2
    THEN BadParameter("required reviewers have not yet approved, waiting for approvals from "
                        \o Join(waiting, " and "))
    ELSE IF Len(waiting) > 2
    THEN BadParameter("required reviewers have not yet approved, waiting for approvals from "
                        \o Join(SubSeq(waiting, 1, Len(waiting) - 1), ", ")
                        \o ", and " \o waiting[Len(waiting)])
    ELSE Nil

\* approved (mutant: no approval is waited for).
approvedNil(reviews, req) == Nil
\* approved.
approved(reviews, req) == approvedSwitch(waitingOn(reviews, req))

\* The sequences over S of a length up to n.
SeqsUpTo(S, n) == UNION { [1..k -> S] : k \in 0..n }

\* No workflow-run invocation is under way.
PruneIdle ==
    /\ workflows = << >>
    /\ hostRuns = {}
    /\ hostClock = 0
    /\ pc = "idle"
    /\ branch = ""
    /\ workflow = 0
    /\ runs = << >>
    /\ i = 0
    /\ err = Nil
    /\ deleteCalls = << >>
    /\ ctxDone = FALSE
    /\ hist = [nextID |-> 1, created |-> FALSE, prevOk |-> FALSE,
               prevBranch |-> "", second |-> FALSE, failed |-> 0, removed |-> {}]

\* ---- mostRecent on every list of reviews ----

\* The lists of reviews getReviews can hand to mostRecent: the k-th fetched
\* review has the ID k; submission times may repeat.
Times == {1, 2, 3}
ReviewLists ==
    { [k \in DOMAIN l |-> Review(l[k][1], l[k][2], "h1", k, l[k][3])] :
        l \in SeqsUpTo({"a", "b"} \X {Approved, ChangesRequested} \X Times,
                       MaxReviews) }

InitAggregate ==
    /\ PruneIdle
    /\ CheckIdle
    /\ PermitIdle
    /\ RerunIdle
    /\ SweepIdle
    /\ epc = "start"
    /\ currentReviews \in ReviewLists
    /\ required = << >>
    /\ mostRecentReviews = << >>
    /\ waitingOnApprovalsFrom = << >>
    /\ approvedErr = Nil

\* mostRecent(currentReviews) is evaluated.
Aggregate ==
    /\ epc = "start"
    /\ epc' = "done"
    /\ mostRecentReviews' \in mostRecent(currentReviews)
    /\ UNCHANGED << currentReviews, required, waitingOnApprovalsFrom, approvedErr >>
    /\ UNCHANGED << pruneVars, checkVars, permitVars, rerunVars, sweepVars >>

NextAggregate == Aggregate

SpecAggregate == InitAggregate /\ [][NextAggregate]_vars

\* ---- approved on every list of most recent reviews ----

\* The lists mostRecent can return: at most one review per reviewer.
MostRecentLists ==
    { l \in SeqsUpTo({ Review(n, st, "h1", 1, 1) :
                          n \in Logins, st \in {Approved, ChangesRequested} },
                     Cardinality(Logins)) :
        \A a, b \in DOMAIN l : a # b => l[a].name # l[b].name }

InitApproved ==
    /\ PruneIdle
    /\ CheckIdle
    /\ PermitIdle
    /\ RerunIdle
    /\ SweepIdle
    /\ epc = "start"
    /\ currentReviews = << >>
    /\ required \in SeqsUpTo(Logins, MaxRequired)
    /\ mostRecentReviews \in MostRecentLists
    /\ waitingOnApprovalsFrom = << >>
    /\ approvedErr = Nil

\* approved(mostRecentReviews, required) is evaluated.
Evaluate ==
    /\ epc = "start"
    /\ epc' = "done"
    /\ waitingOnApprovalsFrom' = waitingOn(mostRecentReviews, required)
    /\ approvedErr' = approved(mostRecentReviews, required)
    /\ UNCHANGED << currentReviews, required, mostRecentReviews >>
    /\ UNCHANGED << pruneVars, checkVars, permitVars, rerunVars, sweepVars >>

NextApproved == Evaluate

SpecApproved == InitApproved /\ [][NextApproved]_vars

(***************************************************************************)
(* The check of a pull request: check, getReviews, verifyCommit,           *)
(* invalidateApprovals.                                                    *)
(***************************************************************************)
\* A nil pointer field of a fetched review: a string, an integer.
NilString == "<nil>"
NilInt == 0

Errorf(msg) == [Kind |-> "Error", Msg |-> msg]
\* A nil pointer is dereferenced: the process panics.
Panic == [Kind |-> "panic", Msg |-> "nil pointer dereference"]

\* The state of a dismissed review (mutant: the host leaves it approved).
StillApproved == "APPROVED"
\* The state the host gives a dismissed review.
Dismissed == "DISMISSED"

\* ci.GithubCommit: the marker of a commit signed by the host.
GithubCommit == "GitHub"

\* The reviewer maps of the model: authors "int" and "emp" (an empty list)
\* with entries of their own and a default list; a default list that is empty.
Policies ==
    { [a \in {"", "int", "emp"} |->
          IF a = "" THEN << "a", "b" >> ELSE IF a = "int" THEN << "b" >> ELSE << >>],
      [a \in {"", "int"} |-> IF a = "" THEN << >> ELSE << "a" >>] }

Authors == {"int", "emp", "ext"}

\* PullRequestEnvironment.defaultReviewers, set by New to revs[""].
defaultReviewers == Reviewers[""]

\* GetReviewersForAuthor (mutant: the default reviewers are added to the
\* author's own).
GetReviewersMerged(user) ==
    IF user \in DOMAIN Reviewers
    THEN Reviewers[user] \o Reviewers[""]
    ELSE Reviewers[""]
\* GetReviewersForAuthor.
GetReviewersForAuthor(user) ==
    IF user \in DOMAIN Reviewers THEN Reviewers[user] ELSE defaultReviewers

\* IsInternal (mutant: an author with an empty list is not internal).
IsInternalNonEmpty(author) ==
    author \in DOMAIN Reviewers /\ Reviewers[author] # << >>
\* IsInternal.
IsInternal(author) == author \in DOMAIN Reviewers

\* strings.Contains.
Contains(str, substr) ==
    \E k \in 1..(Len(str) - Len(substr) + 1) : SubSeq(str, k, k + Len(substr) - 1) = substr

\* checkReviewFields: the first nil field in the order of the switch; the
\* last case reads review.User.Login and panics when review.User is nil.
checkReviewFields(review) ==
    IF review.ID = NilInt THEN Errorf("review ID is nil")
    ELSE IF review.State = NilString THEN Errorf("review State is nil")
    ELSE IF review.CommitID = NilString THEN Errorf("review CommitID is nil")
    ELSE IF review.SubmittedAt = NilInt THEN Errorf("review SubmittedAt is nil")
    ELSE IF ~review.User THEN Panic
    ELSE IF review.Login = NilString THEN Errorf("reviewer User.Login is nil")
    ELSE Nil

\* getReviews' loop ends at the first review checkReviewFields rejects (0: none).
FirstRejected(reviews) ==
    IF \E k \in DOMAIN reviews : checkReviewFields(reviews[k]) # Nil
    THEN CHOOSE k \in DOMAIN reviews :
            /\ checkReviewFields(reviews[k]) # Nil
            /\ \A m \in 1..(k - 1) : checkReviewFields(reviews[m]) = Nil
    ELSE 0

\* getReviews' currentReviewsSlice.
currentReviewsSlice(reviews) ==
    [k \in DOMAIN reviews |->
        Review(reviews[k].Login, reviews[k].State, reviews[k].CommitID,
               reviews[k].ID, reviews[k].SubmittedAt)]

\* check's test for no reviews (mutant: the test never holds).
hasNoReviewsNever(reviews) == Len(reviews) < 0
\* check: len(mostRecentReviews) == 0.
hasNoReviews(reviews) == Len(reviews) = 0

\* hasNewCommit (mutant: every pull request has a new commit).
hasNewCommitAlways(headSHA, revs) == TRUE
\* hasNewCommit.
hasNewCommit(headSHA, revs) == \E k \in DOMAIN revs : revs[k].commitID # headSHA

\* check, from the most recent reviews to its first host call or its return.
checkReviews(reviews) ==
    IF hasNoReviews(reviews)
    THEN [cpc |-> "done", err |-> BadParameter("pull request has no reviews")]
    ELSE IF approved(reviews, GetReviewersForAuthor(pr.Author)) # Nil
    THEN [cpc |-> "done", err |-> approved(reviews, GetReviewersForAuthor(pr.Author))]
    ELSE IF hasNewCommit(pr.HeadSHA, reviews) /\ ~IsInternal(pr.Author)
    THEN [cpc |-> "verifyCommit", err |-> Nil]
    ELSE [cpc |-> "done", err |-> Nil]

Call(name, arg) == [Call |-> name, Arg |-> arg]

\* check is invoked.
check ==
    /\ cpc \in {"idle", "done", "panic"}
    /\ cpc' = "getReviews"
    /\ mostRecentReviews' = << >>
    /\ verifyErr' = Nil
    /\ pos' = 0
    /\ checkErr' = Nil
    /\ calls' = << >>
    /\ dismissed' = [prev |-> dismissed.prev \cup dismissed.cur, cur |-> {}]
    /\ UNCHANGED << Reviewers, pr, hostReviews, comparison, commit >>

\* getReviews: ListReviews failed; check returns the error.
getReviewsFails ==
    /\ cpc = "getReviews"
    /\ calls' = Append(calls, Call("ListReviews", 0))
    /\ cpc' = "done"
    /\ checkErr' = HostError("ListReviews", 0)
    /\ UNCHANGED << Reviewers, pr, hostReviews, mostRecentReviews, verifyErr, pos,
                    comparison, commit, dismissed >>

\* getReviews: ListReviews succeeded; the reviews are checked and reduced to
\* the most recent ones, and check goes on to its first host call or returns.
getReviews ==
    /\ cpc = "getReviews"
    /\ calls' = Append(calls, Call("ListReviews", 0))
    /\ LET rejected == FirstRejected(hostReviews) IN
         IF rejected # 0
         THEN /\ checkErr' = checkReviewFields(hostReviews[rejected])
              /\ cpc' = IF checkErr' = Panic THEN "panic" ELSE "done"
              /\ UNCHANGED mostRecentReviews
         ELSE \E reviews \in mostRecent(currentReviewsSlice(hostReviews)) :
                /\ mostRecentReviews' = reviews
                /\ cpc' = checkReviews(reviews).cpc
                /\ checkErr' = checkReviews(reviews).err
    /\ UNCHANGED << Reviewers, pr, hostReviews, verifyErr, pos, comparison, commit,
                    dismissed >>

\* The answers of the host to a question about the commits of the pull
\* request: the one it gave before, any of them if it has not answered yet.
Answers(given, all) == IF given = << >> THEN all ELSE { given[1] }

\* verifyCommit's test of the comparison: it lists no changed file.
noFileChange(files) == files = 0

\* verifyCommit: CompareCommits succeeded, with or without changed files.
compareCommits ==
    /\ cpc = "verifyCommit"
    /\ calls' = Append(calls, Call("CompareCommits", 0))
    /\ \E files \in Answers(comparison, {0, 1}) :
         /\ comparison' = << files >>
         /\ IF ~noFileChange(files)
            THEN /\ verifyErr' = BadParameter("detected file change")
                 /\ cpc' = "invalidateApprovals"
            ELSE /\ cpc' = "getCommit"
                 /\ UNCHANGED verifyErr
    /\ UNCHANGED << Reviewers, pr, hostReviews, mostRecentReviews, pos, checkErr,
                    commit, dismissed >>

\* verifyCommit: CompareCommits failed (mutant: check returns the error of
\* the call and invalidates nothing).
compareCommitsFailsReturned ==
    /\ cpc = "verifyCommit"
    /\ calls' = Append(calls, Call("CompareCommits", 0))
    /\ verifyErr' = HostError("CompareCommits", 0)
    /\ checkErr' = HostError("CompareCommits", 0)
    /\ cpc' = "done"
    /\ UNCHANGED << Reviewers, pr, hostReviews, mostRecentReviews, pos,
                    comparison, commit, dismissed >>
\* verifyCommit: CompareCommits failed.
compareCommitsFails ==
    /\ cpc = "verifyCommit"
    /\ calls' = Append(calls, Call("CompareCommits", 0))
    /\ verifyErr' = HostError("CompareCommits", 0)
    /\ cpc' = "invalidateApprovals"
    /\ UNCHANGED << Reviewers, pr, hostReviews, mostRecentReviews, pos, checkErr,
                    comparison, commit, dismissed >>

\* The verification records GetCommit can return: none; a record without a
\* payload, without a verified flag, with a payload that does not name the
\* host, with the flag false; and a record of a commit the host signed.
Verifications ==
    { [Present |-> FALSE, Payload |-> NilString, Verified |-> NilString],
      [Present |-> TRUE, Payload |-> NilString, Verified |-> "true"],
      [Present |-> TRUE, Payload |-> "committer GitHub <noreply@github.com>",
       Verified |-> NilString],
      [Present |-> TRUE, Payload |-> "committer mallory", Verified |-> "true"],
      [Present |-> TRUE, Payload |-> "committer GitHub <noreply@github.com>",
       Verified |-> "false"],
      [Present |-> TRUE, Payload |-> "committer GitHub <noreply@github.com>",
       Verified |-> "true"] }

\* verifyCommit's test (mutant: the verified flag is not read).
signedByGithubUnverified(verification) ==
    /\ verification.Present
    /\ verification.Payload # NilString /\ verification.Verified # NilString
    /\ Contains(verification.Payload, "GitHub")
\* verifyCommit's test of the verification record.
signedByGithub(verification) ==
    /\ verification.Present
    /\ verification.Payload # NilString /\ verification.Verified # NilString
    /\ Contains(verification.Payload, GithubCommit)
    /\ verification.Verified = "true"

\* verifyCommit: GetCommit succeeded.
getCommit ==
    /\ cpc = "getCommit"
    /\ calls' = Append(calls, Call("GetCommit", 0))
    /\ \E verification \in Answers(commit, Verifications) :
         /\ commit' = << verification >>
         /\ IF signedByGithub(verification)
            THEN /\ cpc' = "done"
                 /\ checkErr' = Nil
                 /\ UNCHANGED verifyErr
            ELSE /\ verifyErr' =
                       BadParameter("commit is not verified and/or is not signed by GitHub")
                 /\ cpc' = "invalidateApprovals"
                 /\ UNCHANGED checkErr
    /\ UNCHANGED << Reviewers, pr, hostReviews, mostRecentReviews, pos, comparison,
                    dismissed >>

\* verifyCommit: GetCommit failed.
getCommitFails ==
    /\ cpc = "getCommit"
    /\ calls' = Append(calls, Call("GetCommit", 0))
    /\ verifyErr' = HostError("GetCommit", 0)
    /\ cpc' = "invalidateApprovals"
    /\ UNCHANGED << Reviewers, pr, hostReviews, mostRecentReviews, pos, checkErr,
                    comparison, commit, dismissed >>

\* invalidateApprovals' loop (mutant: the state of a review is not read).
nextReview(p, reviews) == IF p < Len(reviews) THEN p + 1 ELSE 0
\* invalidateApprovals' loop: the next review after position p with the
\* approved state (0: none).
nextApproved(p, reviews) ==
    IF \E k \in DOMAIN reviews : k > p /\ reviews[k].status = Approved
    THEN CHOOSE k \in DOMAIN reviews :
            /\ k > p /\ reviews[k].status = Approved
            /\ \A m \in (p + 1)..(k - 1) : reviews[m].status # Approved
    ELSE 0

\* invalidateApprovals: the next approved review is dismissed on the host.
dismissReview ==
    /\ cpc = "invalidateApprovals"
    /\ nextApproved(pos, mostRecentReviews) # 0
    /\ LET v == mostRecentReviews[nextApproved(pos, mostRecentReviews)] IN
         /\ calls' = Append(calls, Call("DismissReview", v.id))
         /\ hostReviews' = [hostReviews EXCEPT ![v.id].State = Dismissed]
         /\ dismissed' = [dismissed EXCEPT !.cur = @ \cup { v.id }]
    /\ pos' = nextApproved(pos, mostRecentReviews)
    /\ UNCHANGED << Reviewers, pr, mostRecentReviews, cpc, verifyErr, checkErr,
                    comparison, commit >>

\* invalidateApprovals: DismissReview failed; check returns that error.
dismissReviewFails ==
    /\ cpc = "invalidateApprovals"
    /\ nextApproved(pos, mostRecentReviews) # 0
    /\ LET v == mostRecentReviews[nextApproved(pos, mostRecentReviews)] IN
         /\ calls' = Append(calls, Call("DismissReview", v.id))
         /\ checkErr' = HostError("DismissReview", v.id)
    /\ cpc' = "done"
    /\ UNCHANGED << Reviewers, pr, hostReviews, mostRecentReviews, verifyErr, pos,
                    comparison, commit, dismissed >>

\* invalidateApprovals returned nil (mutant: check then returns nil).
invalidateApprovalsDoneNil ==
    /\ cpc = "invalidateApprovals"
    /\ nextApproved(pos, mostRecentReviews) = 0
    /\ cpc' = "done"
    /\ checkErr' = Nil
    /\ UNCHANGED << Reviewers, pr, hostReviews, mostRecentReviews, verifyErr, pos, calls,
                    comparison, commit, dismissed >>
\* invalidateApprovals returned nil; check returns verifyCommit's error.
invalidateApprovalsDone ==
    /\ cpc = "invalidateApprovals"
    /\ nextApproved(pos, mostRecentReviews) = 0
    /\ cpc' = "done"
    /\ checkErr' = verifyErr
    /\ UNCHANGED << Reviewers, pr, hostReviews, mostRecentReviews, verifyErr, pos, calls,
                    comparison, commit, dismissed >>

\* The reviews ListReviews can return, in chronological order as the host
\* lists them: the k-th has the ID k and was submitted at time k; a review is
\* complete, or lacks its ID, state, commit ID, submission time, user or login.
FetchedReviews ==
    ({"ok"} \X {"a", "b"} \X {Approved, ChangesRequested} \X Commits)
    \cup ({"ID", "State", "CommitID", "SubmittedAt", "User", "Login"}
            \X {"a"} \X {Approved} \X {"h2"})

FetchedLists ==
    { [k \in DOMAIN l |->
          [ID |-> IF l[k][1] = "ID" THEN NilInt ELSE k,
           State |-> IF l[k][1] = "State" THEN NilString ELSE l[k][3],
           CommitID |-> IF l[k][1] = "CommitID" THEN NilString ELSE l[k][4],
           SubmittedAt |-> IF l[k][1] = "SubmittedAt" THEN NilInt ELSE k,
           User |-> l[k][1] # "User",
           Login |-> IF l[k][1] \in {"User", "Login"} THEN NilString ELSE l[k][2]]] :
        l \in SeqsUpTo(FetchedReviews, MaxFetched) }

InitCheck ==
    /\ PruneIdle
    /\ EvalIdle
    /\ PermitIdle
    /\ RerunIdle
    /\ SweepIdle
    /\ Reviewers \in Policies
    /\ pr \in [Author : Authors, HeadSHA : {"h2"}, BaseSHA : {"h0"}, BranchName : {"b1"}]
    /\ hostReviews \in FetchedLists
    /\ cpc = "idle"
    /\ verifyErr = Nil
    /\ pos = 0
    /\ checkErr = Nil
    /\ calls = << >>
    /\ comparison = << >>
    /\ commit = << >>
    /\ dismissed = [prev |-> {}, cur |-> {}]

NextCheck ==
    \/ check /\ UNCHANGED << pruneVars, evalRest, permitVars, rerunVars, sweepVars >>
    \/ getReviewsFails /\ UNCHANGED << pruneVars, evalRest, permitVars, rerunVars, sweepVars >>
    \/ getReviews /\ UNCHANGED << pruneVars, evalRest, permitVars, rerunVars, sweepVars >>
    \/ compareCommits /\ UNCHANGED << pruneVars, evalRest, permitVars, rerunVars, sweepVars >>
    \/ compareCommitsFails /\ UNCHANGED << pruneVars, evalRest, permitVars, rerunVars, sweepVars >>
    \/ getCommit /\ UNCHANGED << pruneVars, evalRest, permitVars, rerunVars, sweepVars >>
    \/ getCommitFails /\ UNCHANGED << pruneVars, evalRest, permitVars, rerunVars, sweepVars >>
    \/ dismissReview /\ UNCHANGED << pruneVars, evalRest, permitVars, rerunVars, sweepVars >>
    \/ dismissReviewFails /\ UNCHANGED << pruneVars, evalRest, permitVars, rerunVars, sweepVars >>
    \/ invalidateApprovalsDone /\ UNCHANGED << pruneVars, evalRest, permitVars, rerunVars, sweepVars >>

SpecCheck == InitCheck /\ [][NextCheck]_vars

(***************************************************************************)
(* The approval of a workflow run by a comment: HasWorkflowRunApproval,    *)
(* commentPermitsRun.                                                      *)
(***************************************************************************)
\* ci.RUNCI: the phrase that asks for the run.
RUNCI == "run ci"

\* The error for a pull request without approval (mutant: another message).
NotApprovedOther == BadParameter("the comment does not permit the run")
\* HasWorkflowRunApproval's error for a pull request without approval.
NotApproved == BadParameter("workflow runs have not been approved for this pull request")

\* commentPermitsRun's admins.
admins == GetReviewersForAuthor("")

\* commentPermitsRun (mutant: a comment created after now is rejected).
commentPermitsRunTimed(c) ==
    /\ c.CreatedAt <= now
    /\ c.CommitID = pr.HeadSHA
    /\ Contains(c.Body, RUNCI)
    /\ \E k \in DOMAIN admins : c.Login = admins[k]

\* commentPermitsRun: the comment is on the head commit, its body contains
\* ci.RUNCI and its author is one of the admins. The author association of
\* the comment is not read: the test of it is commented out.
commentPermitsRun(c) ==
    IF c.CommitID # pr.HeadSHA THEN FALSE
    ELSE IF ~Contains(c.Body, RUNCI) THEN FALSE
    ELSE \E k \in DOMAIN admins : c.Login = admins[k]

\* HasWorkflowRunApproval is invoked: it returns nil at once for an internal
\* author and calls ListComments for any other.
HasWorkflowRunApproval ==
    /\ ppc \in {"idle", "done", "panic"}
    /\ comment' = 0
    /\ commentCalls' = << >>
    /\ approvalErr' = Nil
    /\ ppc' = IF IsInternal(pr.Author) THEN "done" ELSE "ListComments"
    /\ UNCHANGED << comments, now >>

\* ListComments failed. The status of the response is printed before the
\* error is tested: with no response (the request was not answered) that is
\* a nil pointer dereference, with a response the error is returned.
listCommentsFails ==
    /\ ppc = "ListComments"
    /\ commentCalls' = Append(commentCalls, Call("ListComments", 0))
    /\ \E resp \in BOOLEAN :
         IF resp
         THEN /\ ppc' = "done"
              /\ approvalErr' = HostError("ListComments", 0)
         ELSE /\ ppc' = "panic"
              /\ approvalErr' = Panic
    /\ UNCHANGED << comments, now, comment >>

\* ListComments succeeded: the loop over the comments starts.
listComments ==
    /\ ppc = "ListComments"
    /\ commentCalls' = Append(commentCalls, Call("ListComments", 0))
    /\ ppc' = "ranging"
    /\ comment' = 1
    /\ UNCHANGED << comments, now, approvalErr >>

\* The loop: the comment permits the run, HasWorkflowRunApproval returns nil.
commentPermits ==
    /\ ppc = "ranging"
    /\ comment <= Len(comments)
    /\ commentPermitsRun(comments[comment])
    /\ ppc' = "done"
    /\ approvalErr' = Nil
    /\ UNCHANGED << comments, now, comment, commentCalls >>

\* The loop: the comment does not permit the run, the next one is tried.
commentRejected ==
    /\ ppc = "ranging"
    /\ comment <= Len(comments)
    /\ ~commentPermitsRun(comments[comment])
    /\ comment' = comment + 1
    /\ UNCHANGED << comments, now, ppc, approvalErr, commentCalls >>

\* The loop ended: no comment permits the run.
noCommentPermits ==
    /\ ppc = "ranging"
    /\ comment > Len(comments)
    /\ ppc' = "done"
    /\ approvalErr' = NotApproved
    /\ UNCHANGED << comments, now, comment, commentCalls >>

\* A comment on the head commit, with the phrase, by an owner who is an admin
\* of the first reviewer map.
PermittingComment ==
    [CommitID |-> "h2", Body |-> "please run ci now",
     AuthorAssociation |-> "OWNER", Login |-> "a"]

\* The comments ListComments can return: that comment, and the ones that
\* differ from it by the commit, the body, the author association or the
\* login; each created before or after the invocation.
Comments ==
    { [CommitID |-> v.CommitID, Body |-> v.Body,
       AuthorAssociation |-> v.AuthorAssociation, Login |-> v.Login,
       CreatedAt |-> t] :
        v \in { PermittingComment,
                [PermittingComment EXCEPT !.CommitID = "h1"],
                [PermittingComment EXCEPT !.Body = "lgtm"],
                [PermittingComment EXCEPT !.AuthorAssociation = "COLLABORATOR"],
                [PermittingComment EXCEPT !.Login = "c"] },
        t \in {1, 3} }

InitPermit ==
    /\ PruneIdle
    /\ EvalIdle
    /\ Reviewers \in Policies
    /\ pr \in [Author : Authors, HeadSHA : {"h2"}, BaseSHA : {"h0"}, BranchName : {"b1"}]
    /\ hostReviews = << >>
    /\ cpc = "idle"
    /\ verifyErr = Nil
    /\ pos = 0
    /\ checkErr = Nil
    /\ calls = << >>
    /\ comparison = << >>
    /\ commit = << >>
    /\ dismissed = [prev |-> {}, cur |-> {}]
    /\ comments \in SeqsUpTo(Comments, MaxComments)
    /\ now = 2
    /\ ppc = "idle"
    /\ comment = 0
    /\ approvalErr = Nil
    /\ commentCalls = << >>
    /\ RerunIdle
    /\ SweepIdle

NextPermit ==
    \/ HasWorkflowRunApproval /\ UNCHANGED << pruneVars, evalVars, checkVars, rerunVars, sweepVars >>
    \/ listCommentsFails /\ UNCHANGED << pruneVars, evalVars, checkVars, rerunVars, sweepVars >>
    \/ listComments /\ UNCHANGED << pruneVars, evalVars, checkVars, rerunVars, sweepVars >>
    \/ commentPermits /\ UNCHANGED << pruneVars, evalVars, checkVars, rerunVars, sweepVars >>
    \/ commentRejected /\ UNCHANGED << pruneVars, evalVars, checkVars, rerunVars, sweepVars >>
    \/ noCommentPermits /\ UNCHANGED << pruneVars, evalVars, checkVars, rerunVars, sweepVars >>

SpecPermit == InitPermit /\ [][NextPermit]_vars

(***************************************************************************)
(* The rerun of the most recent runs: ReRunWorkflows, redoMostRecentRun.   *)
(***************************************************************************)
\* redoMostRecentRun's listing: getSortedWorkflowRuns is handed pr.BranchName.
ListWorkflowRunsOfPull(workflowID, b) == ListWorkflowRunsByID(workflowID, b)

\* redoMostRecentRun's target (mutant: the first of the sorted runs).
firstRun(rs) == rs[1]
\* redoMostRecentRun: targetRun = runs[len(runs)-1].
targetRun(rs) == rs[Len(rs)]

RerunCall(w, r) == [Workflow |-> w, Run |-> r]

\* ReRunWorkflows is invoked: it starts with the Check workflow.
ReRunWorkflows ==
    /\ rpc \in {"idle", "done"}
    /\ rpc' = "getWorkflow"
    /\ rerunName' = CheckWorkflow
    /\ rerunWorkflow' = 0
    /\ rerunRuns' = << >>
    /\ rerunCalls' = << >>
    /\ rerunErr' = Nil

\* getWorkflow: ListWorkflows succeeded.
rerunGetWorkflow ==
    /\ rpc = "getWorkflow"
    /\ LET id == getWorkflowLoop(workflows, rerunName) IN
         IF id = 0
         THEN /\ rpc' = "done"
              /\ rerunErr' = NotFound
              /\ UNCHANGED rerunWorkflow
         ELSE /\ rpc' = "redoMostRecentRun"
              /\ rerunWorkflow' = id
              /\ UNCHANGED rerunErr
    /\ UNCHANGED << rerunName, rerunRuns, rerunCalls >>

\* getWorkflow: ListWorkflows failed.
rerunGetWorkflowFails ==
    /\ rpc = "getWorkflow"
    /\ rpc' = "done"
    /\ rerunErr' = HostError("ListWorkflows", 0)
    /\ UNCHANGED << rerunName, rerunWorkflow, rerunRuns, rerunCalls >>

\* redoMostRecentRun: the runs of the workflow on the branch of the pull
\* request were listed and sorted; without a run NotFound is returned.
redoMostRecentRun ==
    /\ rpc = "redoMostRecentRun"
    /\ \E s \in SortSlice(ListWorkflowRunsOfPull(rerunWorkflow, pr.BranchName)) :
         /\ rerunRuns' = s
         /\ IF Len(s) < 1
            THEN /\ rpc' = "done"
                 /\ rerunErr' = NotFound
            ELSE /\ rpc' = "RerunWorkflowByID"
                 /\ UNCHANGED rerunErr
    /\ UNCHANGED << rerunName, rerunWorkflow, rerunCalls >>

\* redoMostRecentRun: ListWorkflowRunsByID failed.
redoMostRecentRunFails ==
    /\ rpc = "redoMostRecentRun"
    /\ rpc' = "done"
    /\ rerunErr' = HostError("ListWorkflowRunsByID", 0)
    /\ UNCHANGED << rerunName, rerunWorkflow, rerunRuns, rerunCalls >>

\* redoMostRecentRun: RerunWorkflowByID succeeded; after the Check workflow
\* ReRunWorkflows goes on to the Assign workflow, after that it returns nil.
rerunWorkflowByID ==
    /\ rpc = "RerunWorkflowByID"
    /\ rerunCalls' = Append(rerunCalls, RerunCall(rerunWorkflow, targetRun(rerunRuns).ID))
    /\ IF rerunName = CheckWorkflow
       THEN /\ rerunName' = AssignWorkflow
            /\ rpc' = "getWorkflow"
       ELSE /\ rpc' = "done"
            /\ UNCHANGED rerunName
    /\ UNCHANGED << rerunWorkflow, rerunRuns, rerunErr >>

\* redoMostRecentRun: RerunWorkflowByID failed.
rerunWorkflowByIDFails ==
    /\ rpc = "RerunWorkflowByID"
    /\ rerunCalls' = Append(rerunCalls, RerunCall(rerunWorkflow, targetRun(rerunRuns).ID))
    /\ rpc' = "done"
    /\ rerunErr' = HostError("RerunWorkflowByID", targetRun(rerunRuns).ID)
    /\ UNCHANGED << rerunName, rerunWorkflow, rerunRuns >>

\* The workflow runs a repository may hold: the k-th has the ID k, is a run
\* of either workflow on either branch and was created at time 1 or 2.
RunSets ==
    { { [ID |-> k, WorkflowID |-> l[k][1], HeadBranch |-> l[k][2], CreatedAt |-> l[k][3]] :
          k \in DOMAIN l } :
        l \in SeqsUpTo(WorkflowIDs \X Branches \X {1, 2}, MaxRuns) }

InitRerun ==
    /\ EvalIdle
    /\ PermitIdle
    /\ SweepIdle
    /\ workflows \in WorkflowLists
    /\ hostRuns \in RunSets
    /\ hostClock = 2
    /\ pc = "idle"
    /\ branch = ""
    /\ workflow = 0
    /\ runs = << >>
    /\ i = 0
    /\ err = Nil
    /\ deleteCalls = << >>
    /\ ctxDone = FALSE
    /\ hist = [nextID |-> 1, created |-> FALSE, prevOk |-> FALSE,
               prevBranch |-> "", second |-> FALSE, failed |-> 0, removed |-> {}]
    /\ Reviewers = << >>
    /\ pr \in [Author : {"ext"}, HeadSHA : {"h2"}, BaseSHA : {"h0"}, BranchName : Branches]
    /\ hostReviews = << >>
    /\ cpc = "idle"
    /\ verifyErr = Nil
    /\ pos = 0
    /\ checkErr = Nil
    /\ calls = << >>
    /\ comparison = << >>
    /\ commit = << >>
    /\ dismissed = [prev |-> {}, cur |-> {}]
    /\ rpc = "idle"
    /\ rerunName = ""
    /\ rerunWorkflow = 0
    /\ rerunRuns = << >>
    /\ rerunCalls = << >>
    /\ rerunErr = Nil

NextRerun ==
    \/ ReRunWorkflows /\ UNCHANGED << pruneVars, evalVars, checkVars, permitVars, sweepVars >>
    \/ rerunGetWorkflow /\ UNCHANGED << pruneVars, evalVars, checkVars, permitVars, sweepVars >>
    \/ rerunGetWorkflowFails /\ UNCHANGED << pruneVars, evalVars, checkVars, permitVars, sweepVars >>
    \/ redoMostRecentRun /\ UNCHANGED << pruneVars, evalVars, checkVars, permitVars, sweepVars >>
    \/ redoMostRecentRunFails /\ UNCHANGED << pruneVars, evalVars, checkVars, permitVars, sweepVars >>
    \/ rerunWorkflowByID /\ UNCHANGED << pruneVars, evalVars, checkVars, permitVars, sweepVars >>
    \/ rerunWorkflowByIDFails /\ UNCHANGED << pruneVars, evalVars, checkVars, permitVars, sweepVars >>

SpecRerun == InitRerun /\ [][NextRerun]_vars

(***************************************************************************)
(* The sweep over the open pull requests:                                  *)
(* DimissStaleWorkflowRunsForExternalContributors.                         *)
(***************************************************************************)
\* The branch of a pull request (mutant: the branch it is to be merged into).
pullBaseRef(p) == p.Base.Ref
\* The branch the loop hands to DismissStaleWorkflowRuns: *pull.Head.Ref.
pullHeadRef(p) == p.Head.Ref

\* The open pull requests a repository may hold: each has a head branch and
\* is to be merged into master.
PullRequests == { [Head |-> [Ref |-> b], Base |-> [Ref |-> "master"]] : b \in Branches }

\* The run sets a completed DismissStaleWorkflowRuns(b) can leave of rs: the
\* runs of the Check workflow on b are sorted and all but the last deleted.
PruneOutcomes(rs, b) ==
    LET id == getWorkflowLoop(workflows, CheckWorkflow)
        list == { r \in rs : r.WorkflowID = id /\ r.HeadBranch = b }
    IN  { rs \ { sorted[k] : k \in 1..(Len(sorted) - 1) } : sorted \in SortSlice(list) }

\* The run sets the loop over the pull requests can leave of rs when every
\* DismissStaleWorkflowRuns returns nil.
RECURSIVE SweepOutcomes(_, _)
SweepOutcomes(rs, pulls) ==
    IF pulls = << >>
    THEN {rs}
    ELSE UNION { SweepOutcomes(left, Tail(pulls)) :
                   left \in PruneOutcomes(rs, pullHeadRef(Head(pulls))) }

\* DimissStaleWorkflowRunsForExternalContributors is invoked.
DimissStaleWorkflowRunsForExternalContributors ==
    /\ spc = "idle"
    /\ spc' = "List"
    /\ runs0' = hostRuns
    /\ UNCHANGED << pullReqs, pull, sweepErr, pruned >>

\* PullRequests.List failed.
listPullRequestsFails ==
    /\ spc = "List"
    /\ spc' = "done"
    /\ sweepErr' = HostError("List", 0)
    /\ UNCHANGED << pullReqs, pull, pruned, runs0 >>

\* PullRequests.List returned the open pull requests: the loop begins.
listPullRequests ==
    /\ spc = "List"
    /\ spc' = "ranging"
    /\ pull' = 1
    /\ UNCHANGED << pullReqs, sweepErr, pruned, runs0 >>

\* The loop invokes DismissStaleWorkflowRuns for the pull request it is at.
sweepDismiss ==
    /\ spc = "ranging"
    /\ pull <= Len(pullReqs)
    /\ DismissStaleWorkflowRuns(pullHeadRef(pullReqs[pull]))
    /\ pruned' = Append(pruned, pullHeadRef(pullReqs[pull]))
    /\ spc' = "pruning"
    /\ UNCHANGED << pullReqs, pull, sweepErr, runs0 >>

\* DismissStaleWorkflowRuns returned nil: the loop goes on.
sweepDismissed ==
    /\ spc = "pruning"
    /\ pc = "done"
    /\ err = Nil
    /\ spc' = "ranging"
    /\ pull' = pull + 1
    /\ UNCHANGED << pullReqs, sweepErr, pruned, runs0 >>

\* DismissStaleWorkflowRuns returned an error: it is returned at once.
sweepDismissFailed ==
    /\ spc = "pruning"
    /\ pc = "done"
    /\ err # Nil
    /\ spc' = "done"
    /\ sweepErr' = err
    /\ UNCHANGED << pullReqs, pull, pruned, runs0 >>

\* The loop is over: nil is returned.
sweepDone ==
    /\ spc = "ranging"
    /\ pull > Len(pullReqs)
    /\ spc' = "done"
    /\ sweepErr' = Nil
    /\ UNCHANGED << pullReqs, pull, pruned, runs0 >>

\* The runs a swept repository may hold: two runs of workflow 2 on b1 created
\* at the same time and a later one, two runs of it on b2, a run of workflow 1.
SweepRuns ==
    { [ID |-> 1, WorkflowID |-> 2, HeadBranch |-> "b1", CreatedAt |-> 1],
      [ID |-> 2, WorkflowID |-> 2, HeadBranch |-> "b1", CreatedAt |-> 1],
      [ID |-> 3, WorkflowID |-> 2, HeadBranch |-> "b1", CreatedAt |-> 2],
      [ID |-> 4, WorkflowID |-> 2, HeadBranch |-> "b2", CreatedAt |-> 1],
      [ID |-> 5, WorkflowID |-> 2, HeadBranch |-> "b2", CreatedAt |-> 2],
      [ID |-> 6, WorkflowID |-> 1, HeadBranch |-> "b1", CreatedAt |-> 1] }

InitSweep ==
    /\ EvalIdle
    /\ CheckIdle
    /\ PermitIdle
    /\ RerunIdle
    /\ workflows \in WorkflowLists
    /\ hostRuns \in { rs \in SUBSET SweepRuns : Cardinality(rs) <= MaxRuns }
    /\ hostClock = 2
    /\ pc = "idle"
    /\ branch = ""
    /\ workflow = 0
    /\ runs = << >>
    /\ i = 0
    /\ err = Nil
    /\ deleteCalls = << >>
    /\ ctxDone = FALSE
    /\ hist = [nextID |-> 1, created |-> FALSE, prevOk |-> FALSE,
               prevBranch |-> "", second |-> FALSE, failed |-> 0, removed |-> {}]
    /\ pullReqs \in SeqsUpTo(PullRequests, MaxPulls)
    /\ spc = "idle"
    /\ pull = 0
    /\ sweepErr = Nil
    /\ pruned = << >>
    /\ runs0 = {}

NextSweep ==
    \/ DimissStaleWorkflowRunsForExternalContributors /\ UNCHANGED << pruneVars, evalVars, checkVars, permitVars, rerunVars >>
    \/ listPullRequestsFails /\ UNCHANGED << pruneVars, evalVars, checkVars, permitVars, rerunVars >>
    \/ listPullRequests /\ UNCHANGED << pruneVars, evalVars, checkVars, permitVars, rerunVars >>
    \/ sweepDismiss /\ UNCHANGED << evalVars, checkVars, permitVars, rerunVars >>
    \/ getWorkflow /\ UNCHANGED << evalVars, checkVars, permitVars, rerunVars, sweepVars >>
    \/ getWorkflowFails /\ UNCHANGED << evalVars, checkVars, permitVars, rerunVars, sweepVars >>
    \/ getSortedWorkflowRuns /\ UNCHANGED << evalVars, checkVars, permitVars, rerunVars, sweepVars >>
    \/ getSortedWorkflowRunsFails /\ UNCHANGED << evalVars, checkVars, permitVars, rerunVars, sweepVars >>
    \/ deleteRun /\ UNCHANGED << evalVars, checkVars, permitVars, rerunVars, sweepVars >>
    \/ deleteRunFails /\ UNCHANGED << evalVars, checkVars, permitVars, rerunVars, sweepVars >>
    \/ deleteRunsDone /\ UNCHANGED << evalVars, checkVars, permitVars, rerunVars, sweepVars >>
    \/ sweepDismissed /\ UNCHANGED << pruneVars, evalVars, checkVars, permitVars, rerunVars >>
    \/ sweepDismissFailed /\ UNCHANGED << pruneVars, evalVars, checkVars, permitVars, rerunVars >>
    \/ sweepDone /\ UNCHANGED << pruneVars, evalVars, checkVars, permitVars, rerunVars >>

SpecSweep == InitSweep /\ [][NextSweep]_vars

(***************************************************************************)
(* Check: the stale runs are dismissed for an internal author, then the    *)
(* reviews are checked.                                                    *)
(***************************************************************************)
\* Check's test before DismissStaleWorkflowRuns (mutant: every author).
anyAuthor(author) == TRUE
\* Check's test before DismissStaleWorkflowRuns: c.Environment.IsInternal.
dismissesFor(author) == IsInternal(author)

\* Check is invoked: for an internal author DismissStaleWorkflowRuns is
\* invoked with the branch of the pull request, otherwise check is.
Check ==
    /\ cpc = "idle"
    /\ IF dismissesFor(pr.Author)
       THEN /\ DismissStaleWorkflowRuns(pr.BranchName)
            /\ cpc' = "DismissStaleWorkflowRuns"
            /\ UNCHANGED << Reviewers, pr, hostReviews, mostRecentReviews, verifyErr,
                            pos, checkErr, calls, comparison, commit, dismissed >>
       ELSE /\ check
            /\ UNCHANGED pruneVars

\* DismissStaleWorkflowRuns returned an error: Check returns it.
dismissStaleFailed ==
    /\ cpc = "DismissStaleWorkflowRuns"
    /\ pc = "done"
    /\ err # Nil
    /\ cpc' = "done"
    /\ checkErr' = err
    /\ UNCHANGED << Reviewers, pr, hostReviews, mostRecentReviews, verifyErr, pos,
                    calls, comparison, commit, dismissed >>

\* DismissStaleWorkflowRuns returned nil: Check goes on to check.
dismissStaleDone ==
    /\ cpc = "DismissStaleWorkflowRuns"
    /\ pc = "done"
    /\ err = Nil
    /\ cpc' = "getReviews"
    /\ UNCHANGED << Reviewers, pr, hostReviews, mostRecentReviews, verifyErr, pos,
                    checkErr, calls, comparison, commit, dismissed >>

InitCheckRuns ==
    /\ EvalIdle
    /\ PermitIdle
    /\ RerunIdle
    /\ SweepIdle
    /\ workflows \in WorkflowLists
    /\ hostRuns \in { rs \in SUBSET SweepRuns : Cardinality(rs) <= MaxRuns }
    /\ hostClock = 2
    /\ pc = "idle"
    /\ branch = ""
    /\ workflow = 0
    /\ runs = << >>
    /\ i = 0
    /\ err = Nil
    /\ deleteCalls = << >>
    /\ ctxDone = FALSE
    /\ hist = [nextID |-> 1, created |-> FALSE, prevOk |-> FALSE,
               prevBranch |-> "", second |-> FALSE, failed |-> 0, removed |-> {}]
    /\ Reviewers \in Policies
    /\ pr \in [Author : Authors, HeadSHA : {"h2"}, BaseSHA : {"h0"}, BranchName : {"b1"}]
    /\ hostReviews \in { l \in FetchedLists : Len(l) <= 1 }
    /\ cpc = "idle"
    /\ verifyErr = Nil
    /\ pos = 0
    /\ checkErr = Nil
    /\ calls = << >>
    /\ comparison = << >>
    /\ commit = << >>
    /\ dismissed = [prev |-> {}, cur |-> {}]

NextCheckRuns ==
    \/ Check /\ UNCHANGED << evalRest, permitVars, rerunVars, sweepVars >>
    \/ getWorkflow /\ UNCHANGED << evalVars, checkVars, permitVars, rerunVars, sweepVars >>
    \/ getWorkflowFails /\ UNCHANGED << evalVars, checkVars, permitVars, rerunVars, sweepVars >>
    \/ getSortedWorkflowRuns /\ UNCHANGED << evalVars, checkVars, permitVars, rerunVars, sweepVars >>
    \/ getSortedWorkflowRunsFails /\ UNCHANGED << evalVars, checkVars, permitVars, rerunVars, sweepVars >>
    \/ deleteRun /\ UNCHANGED << evalVars, checkVars, permitVars, rerunVars, sweepVars >>
    \/ deleteRunFails /\ UNCHANGED << evalVars, checkVars, permitVars, rerunVars, sweepVars >>
    \/ deleteRunsDone /\ UNCHANGED << evalVars, checkVars, permitVars, rerunVars, sweepVars >>
    \/ dismissStaleFailed /\ UNCHANGED << pruneVars, evalRest, permitVars, rerunVars, sweepVars >>
    \/ dismissStaleDone /\ UNCHANGED << pruneVars, evalRest, permitVars, rerunVars, sweepVars >>
    \/ getReviewsFails /\ UNCHANGED << pruneVars, evalRest, permitVars, rerunVars, sweepVars >>
    \/ getReviews /\ UNCHANGED << pruneVars, evalRest, permitVars, rerunVars, sweepVars >>
    \/ compareCommits /\ UNCHANGED << pruneVars, evalRest, permitVars, rerunVars, sweepVars >>
    \/ compareCommitsFails /\ UNCHANGED << pruneVars, evalRest, permitVars, rerunVars, sweepVars >>
    \/ getCommit /\ UNCHANGED << pruneVars, evalRest, permitVars, rerunVars, sweepVars >>
    \/ getCommitFails /\ UNCHANGED << pruneVars, evalRest, permitVars, rerunVars, sweepVars >>
    \/ dismissReview /\ UNCHANGED << pruneVars, evalRest, permitVars, rerunVars, sweepVars >>
    \/ dismissReviewFails /\ UNCHANGED << pruneVars, evalRest, permitVars, rerunVars, sweepVars >>
    \/ invalidateApprovalsDone /\ UNCHANGED << pruneVars, evalRest, permitVars, rerunVars, sweepVars >>

SpecCheckRuns == InitCheckRuns /\ [][NextCheckRuns]_vars

(***************************************************************************)
(* Properties of the workflow-run reconciler (checked under SpecPrune).    *)
(***************************************************************************)
IDs(s) == [k \in DOMAIN s |-> s[k].ID]

\* The creation times of the listed runs are pairwise distinct.
DistinctTimes(s) == \A a, b \in DOMAIN s : a # b => s[a].CreatedAt # s[b].CreatedAt

\* The runs of s with the greatest creation time.
Newest(s) == { r \in Range(s) : \A q \in Range(s) : q.CreatedAt <= r.CreatedAt }

\* The invocation has listed its runs.
Listed == pc = "deleteRuns" \/ (pc = "done" /\ err.Kind \in {"nil", "DeleteRun"})

\* C1: when DismissStaleWorkflowRuns returns nil (every host call succeeded)
\* and the listed runs, all of the resolved workflow on the given branch, have
\* pairwise distinct creation times, deleteRun was called exactly once for every
\* listed run except the one with the greatest creation time, which is the only
\* listed run left on the host.
C1_PruneDeletesAllButNewest ==
    (pc = "done" /\ err = Nil /\ DistinctTimes(runs)) =>
        /\ \A r \in Range(runs) : r.WorkflowID = workflow /\ r.HeadBranch = branch
        /\ Range(deleteCalls) = { r.ID : r \in Range(runs) \ Newest(runs) }
        /\ Len(deleteCalls) = Cardinality(Range(deleteCalls))
        /\ Range(runs) \cap hostRuns = Newest(runs)
        /\ Cardinality(Newest(runs)) = (IF runs = << >> THEN 0 ELSE 1)

\* Three runs created at t1 < t2 < t3 were listed; the runs at t1 and t2 are deleted.
C1_Witness ==
    /\ pc = "done" /\ err = Nil
    /\ Len(runs) = 3 /\ DistinctTimes(runs)
    /\ Len(deleteCalls) = 2

\* C2: in every state of an invocation, also after a failed deleteRun or a
\* passed deadline: the last of the sorted runs, which has the greatest creation
\* time of the snapshot, was never handed to deleteRun and is still on the host;
\* when a single run has the greatest creation time, it is that run.
C2_SurvivorNeverTargeted ==
    (Listed /\ runs # << >>) =>
        LET last == runs[Len(runs)] IN
        /\ last \in Newest(runs)
        /\ last.ID \notin Range(deleteCalls)
        /\ last \in hostRuns
        /\ Cardinality(Newest(runs)) = 1 =>
              \A r \in Newest(runs) : r.ID \notin Range(deleteCalls) /\ r \in hostRuns

\* The deadline passed part-way: one run deleted, the next deleteRun failed.
C2_Witness ==
    /\ pc = "done" /\ ctxDone
    /\ err.Kind = "DeleteRun"
    /\ Len(runs) = 3 /\ Len(deleteCalls) = 2

\* C3: once a deleteRun call has failed, the invocation has returned that
\* call's error, the failed call is the last deleteRun call, the calls made are
\* those for the runs before it in sorted order, the runs deleted before the
\* failure are gone from the host and every later run is still there.
C3_AbortOnFirstFailedDelete ==
    hist.failed # 0 =>
        LET k == Len(deleteCalls) IN
        /\ pc = "done"
        /\ err = HostError("DeleteRun", hist.failed)
        /\ k >= 1 /\ k <= Len(runs) - 1
        /\ deleteCalls = SubSeq(IDs(runs), 1, k)
        /\ deleteCalls[k] = hist.failed
        /\ \A j \in 1..(k - 1) : runs[j] \notin hostRuns
        /\ \A j \in k..Len(runs) : runs[j] \in hostRuns

\* The second of three deleteRun-able runs failed: the first stays deleted.
C3_Witness ==
    /\ hist.failed # 0
    /\ Len(runs) = 3 /\ Len(deleteCalls) = 2
    /\ runs[1] \notin hostRuns

\* C4 as stated: a second invocation for the same branch, after one that
\* returned nil and with no run created since, makes no deleteRun call and
\* returns nil; so does any invocation that listed at most one run.
C4_Original ==
    /\ (hist.second /\ pc = "done") => (deleteCalls = << >> /\ err = Nil)
    /\ (Listed /\ Len(runs) <= 1) => (deleteCalls = << >> /\ (pc = "done" => err = Nil))

\* C4 as amended: the second invocation makes no deleteRun call and returns
\* nil unless listing the workflows or the runs failed; an invocation that
\* listed at most one run makes no deleteRun call and returns nil.
C4_PruneIdempotent ==
    /\ hist.second =>
          /\ deleteCalls = << >>
          /\ hist.removed = {}
          /\ Listed => Len(runs) <= 1
          /\ pc = "done" => err.Kind \in {"nil", "ListWorkflows", "ListWorkflowRunsByID"}
    /\ (Listed /\ Len(runs) <= 1) => (deleteCalls = << >> /\ (pc = "done" => err = Nil))

\* The second invocation has ended, the first having deleted a run.
C4_Witness ==
    /\ hist.second /\ pc = "done" /\ err = Nil
    /\ Len(runs) = 1
    /\ Cardinality(hostRuns) < hist.nextID - 1

NoCheckWorkflow == \A k \in DOMAIN workflows : workflows[k].Name # CheckWorkflow

\* C5: when ListWorkflows succeeds and no workflow is named Check, the
\* invocation ends there with NotFound (and NotFound is returned only then);
\* an invocation that ended with NotFound or with a failed listing of the
\* workflows or of the runs has made no deleteRun call and removed no run.
C5_NotFoundDeletesNothing ==
    /\ (pc \notin {"idle", "getWorkflow"} /\ NoCheckWorkflow /\ err.Kind # "ListWorkflows")
          => (pc = "done" /\ err = NotFound)
    /\ err = NotFound => NoCheckWorkflow
    /\ err.Kind \in {"NotFound", "ListWorkflows", "ListWorkflowRunsByID"}
          => (pc = "done" /\ deleteCalls = << >> /\ hist.removed = {})

\* NotFound was returned with runs on the host.
C5_Witness ==
    /\ pc = "done" /\ err = NotFound
    /\ Cardinality(hostRuns) = 2

(***************************************************************************)
(* Properties of approved (checked under SpecApproved).                    *)
(***************************************************************************)
\* The reviewer has an entry with the approved state in the list.
ApprovedBy(n, reviews) == \E r \in Range(reviews) : r.name = n /\ r.status = Approved

LacksApproval(n) == ~ApprovedBy(n, mostRecentReviews)

\* The orderings of the sequence s.
RECURSIVE Orderings(_)
Orderings(ks) ==
    IF ks = {} THEN { << >> }
    ELSE UNION { { << k >> \o o : o \in Orderings(ks \ {k}) } : k \in ks }
Reorderings(s) == { [k \in DOMAIN s |-> s[o[k]]] : o \in Orderings(DOMAIN s) }

\* C6: approved returns nil iff every required login has an entry with the
\* approved state among the most recent reviews; the waiting list is the
\* required logins without such an entry, in the order of required; and nil
\* or not is the same for every permutation of required.
C6_ApprovedIffAllRequired ==
    epc = "done" =>
        /\ waitingOnApprovalsFrom = SelectSeq(required, LacksApproval)
        /\ (approvedErr = Nil) <=>
              (\A k \in DOMAIN required : ApprovedBy(required[k], mostRecentReviews))
        /\ (approvedErr = Nil) <=> (waitingOnApprovalsFrom = << >>)
        /\ \A q \in Reorderings(required) :
              (approved(mostRecentReviews, q) = Nil) <=> (approvedErr = Nil)

\* a has approved, b has requested changes, c has not reviewed.
C6_Witness ==
    /\ epc = "done"
    /\ required = << "c", "a", "b" >>
    /\ Len(mostRecentReviews) = 2
    /\ ApprovedBy("a", mostRecentReviews)
    /\ waitingOnApprovalsFrom = << "c", "b" >>
    /\ approvedErr # Nil

\* The logins of w from the k-th on, each preceded by ", ".
RECURSIVE CommaTail(_, _, _)
CommaTail(w, k, last) ==
    IF k > last THEN "" ELSE ", " \o w[k] \o CommaTail(w, k + 1, last)

\* The message for the waiting list w, after prefix.
WaitingMessage(prefix, w) ==
    LET n == Len(w) IN
    IF n = 1 THEN prefix \o "waiting on an approval from " \o w[1]
    ELSE IF n = 2 THEN prefix \o "waiting for approvals from " \o w[1] \o " and " \o w[2]
    ELSE prefix \o "waiting for approvals from " \o w[1] \o CommaTail(w, 2, n - 1)
            \o ", and " \o w[n]

\* C7 as stated: the message is "waiting on an approval from a" for one
\* login, "waiting for approvals from a and b" for two, "waiting for approvals
\* from a, b, and c" for three and so on.
C7_Original ==
    (epc = "done" /\ waitingOnApprovalsFrom # << >>) =>
        /\ approvedErr.Kind = "BadParameter"
        /\ approvedErr.Msg = WaitingMessage("", waitingOnApprovalsFrom)

\* C7 as amended: the message is "required reviewers have not yet approved, "
\* followed by "waiting on an approval from a" for one login, "waiting for
\* approvals from a and b" for two, and for n >= 3 "waiting for approvals from "
\* with the first n-1 logins joined by ", ", then ", and " and the last login.
C7_WaitingMessage ==
    (epc = "done" /\ waitingOnApprovalsFrom # << >>) =>
        /\ approvedErr.Kind = "BadParameter"
        /\ approvedErr.Msg = WaitingMessage("required reviewers have not yet approved, ",
                                            waitingOnApprovalsFrom)
        /\ waitingOnApprovalsFrom = << "a" >> => approvedErr.Msg =
              "required reviewers have not yet approved, waiting on an approval from a"
        /\ waitingOnApprovalsFrom = << "a", "b" >> => approvedErr.Msg =
              "required reviewers have not yet approved, waiting for approvals from a and b"
        /\ waitingOnApprovalsFrom = << "a", "b", "c" >> => approvedErr.Msg =
              "required reviewers have not yet approved, waiting for approvals from a, b, and c"

\* Three approvals are missing.
C7_Witness ==
    /\ epc = "done"
    /\ waitingOnApprovalsFrom = << "a", "b", "c" >>
    /\ approvedErr.Msg =
          "required reviewers have not yet approved, waiting for approvals from a, b, and c"

(***************************************************************************)
(* Properties of mostRecent (checked under SpecAggregate).                 *)
(***************************************************************************)
Names(l) == { l[k].name : k \in DOMAIN l }

\* The reviews of l by reviewer n have pairwise distinct submission times.
DistinctTimesOf(l, n) ==
    \A a, b \in DOMAIN l :
        (a # b /\ l[a].name = n /\ l[b].name = n) => l[a].submittedAt # l[b].submittedAt

\* C9: mostRecent returns exactly one entry for each reviewer of the input
\* and none for any other login; when a reviewer's reviews have pairwise
\* distinct submission times the entry is the review with the greatest one, and
\* it is the same for every order of the input list.
C9_MostRecentPerReviewer ==
    epc = "done" =>
        /\ Names(mostRecentReviews) = Names(currentReviews)
        /\ Len(mostRecentReviews) = Cardinality(Names(currentReviews))
        /\ Range(mostRecentReviews) \subseteq Range(currentReviews)
        /\ \A r \in Range(mostRecentReviews) :
              DistinctTimesOf(currentReviews, r.name) =>
                  /\ \A q \in Range(currentReviews) :
                        q.name = r.name => q.submittedAt <= r.submittedAt
                  /\ \A l \in Reorderings(currentReviews) :
                        mostRecentMap(l, << >>)[r.name] = r

\* Three reviews by one reviewer, the latest fetched neither first nor last.
C9_Witness ==
    /\ epc = "done"
    /\ Len(currentReviews) = 3
    /\ Names(currentReviews) = {"a"}
    /\ DistinctTimesOf(currentReviews, "a")
    /\ mostRecentReviews = << currentReviews[2] >>

\* C10 as stated: among a reviewer's reviews with the submission time of
\* the retained entry, the retained entry is the one fetched last.
C10_Original ==
    epc = "done" =>
        \A r \in Range(mostRecentReviews) : \A k \in DOMAIN currentReviews :
            (currentReviews[k].name = r.name
                /\ currentReviews[k].submittedAt = r.submittedAt) => k <= r.id

\* C10 as amended: the retained entry has the reviewer's greatest submission
\* time, and among the reviewer's reviews with that time it is the one fetched
\* first (a later review replaces the entry only when its time is strictly after).
C10_FirstSeenWinsTies ==
    epc = "done" =>
        \A r \in Range(mostRecentReviews) : \A k \in DOMAIN currentReviews :
            currentReviews[k].name = r.name =>
                \/ currentReviews[k].submittedAt < r.submittedAt
                \/ currentReviews[k].submittedAt = r.submittedAt /\ r.id <= k

\* Two reviews by one reviewer at the same time: the first fetched is retained.
C10_Witness ==
    /\ epc = "done"
    /\ Len(currentReviews) = 2
    /\ currentReviews[1].name = currentReviews[2].name
    /\ currentReviews[1].submittedAt = currentReviews[2].submittedAt
    /\ currentReviews[1].status # currentReviews[2].status
    /\ mostRecentReviews = << currentReviews[1] >>

(***************************************************************************)
(* Properties of check (checked under SpecCheck).                          *)
(***************************************************************************)
NoReviewsError == BadParameter("pull request has no reviews")

\* ListReviews has returned the pull request's reviews to this invocation.
ReviewsFetched == cpc \notin {"idle", "getReviews"} /\ checkErr.Kind # "ListReviews"

\* No fetched review is by a required reviewer of the author.
NoneFromRequired ==
    \A k \in DOMAIN hostReviews :
        hostReviews[k].Login \notin Range(GetReviewersForAuthor(pr.Author))

\* C8: when ListReviews returns no review, check ends with the error "pull
\* request has no reviews" whatever the required reviewers are (none included),
\* having made no call but ListReviews; that error is returned only then, and
\* when reviews were fetched but none is by a required reviewer the error is the
\* other one, the list of the approvals waited for.
C8_NoReviewsIsAnError ==
    /\ (ReviewsFetched /\ hostReviews = << >>) =>
          /\ cpc = "done"
          /\ checkErr = NoReviewsError
          /\ calls = << Call("ListReviews", 0) >>
    /\ (ReviewsFetched /\ hostReviews # << >>) => checkErr # NoReviewsError
    /\ (ReviewsFetched /\ hostReviews # << >> /\ FirstRejected(hostReviews) = 0
            /\ NoneFromRequired /\ GetReviewersForAuthor(pr.Author) # << >>) =>
          /\ cpc = "done"
          /\ checkErr = BadParameter(
                WaitingMessage("required reviewers have not yet approved, ",
                               GetReviewersForAuthor(pr.Author)))
          /\ calls = << Call("ListReviews", 0) >>

\* No review was fetched for an external author with no required reviewer.
C8_Witness ==
    /\ cpc = "done"
    /\ hostReviews = << >>
    /\ ~IsInternal(pr.Author)
    /\ GetReviewersForAuthor(pr.Author) = << >>
    /\ checkErr = NoReviewsError


\* A fetched review lacks one of its required fields.
Lacking(review) ==
    \/ review.ID = NilInt
    \/ review.State = NilString
    \/ review.CommitID = NilString
    \/ review.SubmittedAt = NilInt
    \/ review.Login = NilString

\* C11 (as stated; refuted): when a fetched review lacks its identifier,
\* state, commit SHA, submission time or reviewer login, getReviews returns an
\* error and an empty result, and check ends with that error having evaluated
\* no approval and made no call but ListReviews.
C11_Original ==
    (ReviewsFetched /\ \E k \in DOMAIN hostReviews : Lacking(hostReviews[k])) =>
        /\ cpc = "done"
        /\ checkErr.Kind = "Error"
        /\ mostRecentReviews = << >>
        /\ calls = << Call("ListReviews", 0) >>

\* The host call named name was made by this invocation of check.
Called(name) == \E k \in DOMAIN calls : calls[k].Call = name

\* check is in verifyCommit or invalidateApprovals, or has been.
Verifying ==
    \/ cpc \in {"verifyCommit", "getCommit", "invalidateApprovals"}
    \/ Called("CompareCommits") \/ Called("GetCommit") \/ Called("DismissReview")

\* A most recent review was made against a commit other than the head.
ReviewedBeforeHead ==
    \E k \in DOMAIN mostRecentReviews : mostRecentReviews[k].commitID # pr.HeadSHA

\* The author has no entry of their own in the reviewer map.
External == pr.Author \notin DOMAIN Reviewers

\* C12: verifyCommit is invoked only for an external author some of whose
\* most recent reviews was made against a commit other than the head, and a
\* check of such a pull request that passed the approvals does invoke it;
\* hasNewCommit is true iff such a review exists and false on no review; for an
\* internal author, or with every review made at the head, check calls none of
\* CompareCommits, GetCommit and DismissReview.
C12_VerifyOnlyExternalNewCommit ==
    /\ Verifying => (External /\ ReviewedBeforeHead)
    /\ (ReviewsFetched /\ cpc = "done" /\ checkErr = Nil /\ ~Verifying) =>
          (~External \/ ~ReviewedBeforeHead)
    /\ hasNewCommit(pr.HeadSHA, mostRecentReviews) <=> ReviewedBeforeHead
    /\ ~hasNewCommit(pr.HeadSHA, << >>)

\* verifyCommit has been invoked, and has called CompareCommits.
C12_Witness ==
    /\ Called("CompareCommits")
    /\ External
    /\ ReviewedBeforeHead

\* The verification records of a commit the host signed and verified.
Trusted ==
    { v \in Verifications :
        v.Present /\ v.Verified = "true" /\ Contains(v.Payload, "GitHub") }

\* verifyCommit returned nil to this invocation of check.
VerifiedNil == Called("CompareCommits") /\ cpc = "done" /\ checkErr = Nil

\* C13: verifyCommit returns nil iff the comparison of base and head lists no
\* changed file and the head commit's verification has a payload with the
\* host's marker and the verified flag true; a changed file yields the policy
\* violation "detected file change" and the head commit is then not fetched;
\* a verification that is missing, lacks the payload or the flag, has no
\* marker or is not verified yields the policy violation "commit is not
\* verified and/or is not signed by GitHub".
C13_VerifyCommitBothChecks ==
    /\ VerifiedNil =>
          (comparison = << 0 >> /\ commit # << >> /\ commit[1] \in Trusted)
    /\ (comparison = << 0 >> /\ commit # << >> /\ commit[1] \in Trusted
            /\ Called("GetCommit") /\ verifyErr.Kind # "GetCommit") =>
          (verifyErr = Nil /\ cpc = "done" /\ checkErr = Nil)
    /\ (comparison # << >> /\ comparison[1] # 0) =>
          /\ commit = << >>
          /\ ~Called("GetCommit")
          /\ (Called("CompareCommits") /\ verifyErr.Kind # "CompareCommits") =>
                verifyErr = BadParameter("detected file change")
    /\ (commit # << >> /\ commit[1] \notin Trusted
            /\ Called("GetCommit") /\ verifyErr.Kind # "GetCommit") =>
          verifyErr = BadParameter("commit is not verified and/or is not signed by GitHub")
    /\ verifyErr.Kind = "BadParameter" =>
          \/ (comparison # << >> /\ comparison[1] # 0)
          \/ (commit # << >> /\ commit[1] \notin Trusted)

\* No file changed and the head commit is signed by the host: check ends with nil.
C13_Witness ==
    /\ VerifiedNil
    /\ Called("GetCommit")
    /\ commit[1] \in Trusted

\* The IDs DismissReview was called for by this invocation, in call order.
DismissCalls ==
    LET d == SelectSeq(calls, LAMBDA c : c.Call = "DismissReview")
    IN  [k \in DOMAIN d |-> d[k].Arg]

\* The IDs of the approved most recent reviews, in the order of the list.
ApprovedSeq ==
    LET a == SelectSeq(mostRecentReviews, LAMBDA v : v.status = "APPROVED")
    IN  [k \in DOMAIN a |-> a[k].id]

\* C14: the dismiss calls of invalidateApprovals are, in order and once each,
\* for the approved most recent reviews and for no other review; when
\* invalidateApprovals returns nil every approved review has been dismissed;
\* when a dismiss call fails check returns its error, that call is the last,
\* the reviews dismissed before it stay dismissed on the host and the
\* approved reviews after it are not dismissed.
C14_DismissApprovedAbortOnFailure ==
    /\ Len(DismissCalls) <= Len(ApprovedSeq)
    /\ DismissCalls = SubSeq(ApprovedSeq, 1, Len(DismissCalls))
    /\ Cardinality(Range(DismissCalls)) = Len(DismissCalls)
    /\ (cpc = "done" /\ verifyErr # Nil /\ checkErr = verifyErr) =>
          /\ DismissCalls = ApprovedSeq
          /\ \A id \in Range(ApprovedSeq) : hostReviews[id].State = "DISMISSED"
    /\ (cpc = "done" /\ checkErr.Kind = "DismissReview") =>
          /\ DismissCalls # << >>
          /\ checkErr = HostError("DismissReview", DismissCalls[Len(DismissCalls)])
          /\ calls[Len(calls)] = Call("DismissReview", DismissCalls[Len(DismissCalls)])
          /\ \A k \in 1..(Len(DismissCalls) - 1) :
                hostReviews[DismissCalls[k]].State = "DISMISSED"
          /\ \A k \in Len(DismissCalls)..Len(ApprovedSeq) :
                hostReviews[ApprovedSeq[k]].State = "APPROVED"

\* One review was dismissed, the dismiss call for the next one failed.
C14_Witness ==
    /\ cpc = "done"
    /\ checkErr.Kind = "DismissReview"
    /\ Len(DismissCalls) = 2
    /\ hostReviews[DismissCalls[1]].State = "DISMISSED"

\* An earlier invocation of check has dismissed a review.
Retried == dismissed.prev # {}

\* No host call of this invocation has failed.
NoCallFailed ==
    /\ checkErr.Kind \notin {"ListReviews", "DismissReview"}
    /\ verifyErr.Kind \notin {"CompareCommits", "GetCommit"}

\* The most recent review of a required reviewer was dismissed earlier.
RequiredDismissed ==
    \E k \in DOMAIN mostRecentReviews :
        /\ mostRecentReviews[k].id \in dismissed.prev
        /\ mostRecentReviews[k].name \in Range(GetReviewersForAuthor(pr.Author))

\* C15 (as stated; refuted): a check that runs after an earlier one dismissed
\* reviews, all of its host calls succeeding, ends in a policy violation.
C15_Original ==
    (Retried /\ cpc = "done" /\ NoCallFailed) => checkErr.Kind = "BadParameter"

\* C15: a check that runs after an earlier one dismissed reviews does not
\* take a dismissed review for an approved one and calls DismissReview for no
\* review dismissed earlier; when the most recent review of a required
\* reviewer is among the dismissed ones it ends, having called ListReviews
\* only, with the policy violation that lists the approvals waited for.
C15_RetryAfterInvalidation ==
    /\ \A k \in DOMAIN mostRecentReviews :
          mostRecentReviews[k].id \in dismissed.prev =>
              mostRecentReviews[k].status # "APPROVED"
    /\ \A id \in Range(DismissCalls) : id \notin dismissed.prev
    /\ (Retried /\ ReviewsFetched /\ RequiredDismissed) =>
          /\ cpc = "done"
          /\ checkErr.Kind = "BadParameter"
          /\ checkErr = approved(mostRecentReviews, GetReviewersForAuthor(pr.Author))
          /\ checkErr # Nil
          /\ calls = << Call("ListReviews", 0) >>

\* The retry found a required reviewer's approval dismissed and ended.
C15_Witness ==
    /\ Retried
    /\ cpc = "done"
    /\ RequiredDismissed
    /\ checkErr.Kind = "BadParameter"

\* The list the reviewer map holds for the author, the default list (the
\* entry of the empty string) for an author it has no entry for.
OwnOrDefault(author) ==
    IF \E key \in DOMAIN Reviewers : key = author
    THEN Reviewers[author]
    ELSE Reviewers[""]

\* C20: GetReviewersForAuthor returns the author's own list when the map has
\* an entry for the author, an empty one included, with no default reviewer
\* added, and the default list otherwise, the same for any two authors
\* without an entry; check evaluates the approvals against that list.
C20_ReviewersForAuthor ==
    /\ \A user \in Authors \cup {"", "zed"} :
          GetReviewersForAuthor(user) = OwnOrDefault(user)
    /\ \A u1, u2 \in Authors \cup {"zed"} :
          (u1 \notin DOMAIN Reviewers /\ u2 \notin DOMAIN Reviewers) =>
              GetReviewersForAuthor(u1) = GetReviewersForAuthor(u2)
    /\ (cpc = "done" /\ checkErr.Kind = "BadParameter" /\ checkErr # NoReviewsError
            /\ ~Verifying) =>
          checkErr = approved(mostRecentReviews, OwnOrDefault(pr.Author))
    /\ (Verifying \/ (cpc = "done" /\ checkErr = Nil /\ ReviewsFetched)) =>
          approved(mostRecentReviews, OwnOrDefault(pr.Author)) = Nil

\* The author's own list is empty and the default list is not: check passed
\* although a default reviewer has not approved.
C20_Witness ==
    /\ cpc = "done" /\ checkErr = Nil /\ ReviewsFetched
    /\ pr.Author \in DOMAIN Reviewers
    /\ Reviewers[pr.Author] = << >>
    /\ Reviewers[""] # << >>
    /\ approved(mostRecentReviews, Reviewers[""]) # Nil

\* The reviewer map has an entry for the user.
HasEntry(user) == \E key \in DOMAIN Reviewers : key = user

\* C21: IsInternal holds of an author iff the reviewer map has an entry for
\* the author, an empty list included; it is false exactly of the authors
\* GetReviewersForAuthor gives the default list for want of an entry; check
\* verifies the commits of no author with an entry.
C21_InternalIffEntry ==
    /\ \A user \in Authors \cup {"", "zed"} :
          /\ IsInternal(user) <=> HasEntry(user)
          /\ IsInternal(user) => GetReviewersForAuthor(user) = Reviewers[user]
          /\ ~IsInternal(user) => GetReviewersForAuthor(user) = Reviewers[""]
    /\ Verifying => ~HasEntry(pr.Author)
    /\ (cpc = "done" /\ checkErr = Nil /\ ReviewsFetched /\ ReviewedBeforeHead
            /\ ~Verifying) =>
          HasEntry(pr.Author)

\* An author whose own list is empty is internal: the check passed without
\* verifying the commit pushed after the review.
C21_Witness ==
    /\ cpc = "done" /\ checkErr = Nil /\ ReviewsFetched
    /\ HasEntry(pr.Author)
    /\ Reviewers[pr.Author] = << >>
    /\ ReviewedBeforeHead
    /\ ~Verifying

\* Every required reviewer of the author has an approved most recent review.
RequiredApproved ==
    \A login \in Range(OwnOrDefault(pr.Author)) :
        \E k \in DOMAIN mostRecentReviews :
            /\ mostRecentReviews[k].name = login
            /\ mostRecentReviews[k].status = "APPROVED"

\* The error lists the approvals waited for.
IsWaiting(e) ==
    /\ e.Kind = "BadParameter"
    /\ Len(e.Msg) > 40
    /\ SubSeq(e.Msg, 1, 40) = "required reviewers have not yet approved"

\* C27: check reaches verifyCommit and invalidateApprovals only when every
\* required reviewer of the author has an approved most recent review; a
\* check that ends with the error of the approvals waited for or of no
\* review has called ListReviews only, also for an external author with a
\* review made before the head commit.
C27_InvalidateOnlyAfterApproval ==
    /\ Verifying => RequiredApproved
    /\ Called("DismissReview") => RequiredApproved
    /\ (cpc = "done" /\ (IsWaiting(checkErr) \/ checkErr = NoReviewsError)) =>
          /\ calls = << Call("ListReviews", 0) >>
          /\ dismissed.cur = {}
    /\ (cpc = "done" /\ ReviewsFetched /\ FirstRejected(hostReviews) = 0
            /\ mostRecentReviews # << >> /\ ~RequiredApproved) =>
          IsWaiting(checkErr)

\* An external author's pull request with a review made before the head
\* commit waits for an approval: nothing is verified or dismissed.
C27_Witness ==
    /\ cpc = "done"
    /\ IsWaiting(checkErr)
    /\ External
    /\ ReviewedBeforeHead
    /\ \E k \in DOMAIN mostRecentReviews : mostRecentReviews[k].status = "APPROVED"
    /\ calls = << Call("ListReviews", 0) >>

\* verifyCommit's error is the error of a failed host call.
HostFailed == verifyErr.Kind \in {"CompareCommits", "GetCommit"}

\* invalidateApprovals has dismissed every approved most recent review.
AllDismissed ==
    /\ DismissCalls = ApprovedSeq
    /\ \A id \in Range(ApprovedSeq) : hostReviews[id].State = "DISMISSED"

\* C28: every error of verifyCommit, the error of a failed CompareCommits or
\* GetCommit call as well as a policy violation, takes check to
\* invalidateApprovals, which dismisses the approved most recent reviews in
\* the same way for either kind of error.
C28_AnyVerifyErrorInvalidates ==
    /\ verifyErr # Nil => cpc \in {"invalidateApprovals", "done"}
    /\ (HostFailed /\ cpc = "done") =>
          \/ (checkErr = verifyErr /\ AllDismissed)
          \/ checkErr.Kind = "DismissReview"
    /\ (verifyErr.Kind = "BadParameter" /\ cpc = "done") =>
          \/ (checkErr = verifyErr /\ AllDismissed)
          \/ checkErr.Kind = "DismissReview"
    /\ (HostFailed /\ cpc = "invalidateApprovals") =>
          DismissCalls = SubSeq(ApprovedSeq, 1, Len(DismissCalls))

\* GetCommit failed and the approved reviews were dismissed.
C28_Witness ==
    /\ cpc = "done"
    /\ verifyErr.Kind = "GetCommit"
    /\ checkErr = verifyErr
    /\ DismissCalls # << >>
    /\ AllDismissed

\* C29: a check that went to invalidateApprovals returns an error: the
\* error of verifyCommit when no dismiss call failed, the error of the
\* failed dismiss call otherwise; a check returns nil only when every
\* required reviewer has approved and the author is internal, or no review
\* was made before the head commit, or verifyCommit returned nil.
C29_NoSuccessAfterDismissal ==
    /\ (cpc = "done" /\ (verifyErr # Nil \/ Called("DismissReview") \/ dismissed.cur # {})) =>
          /\ checkErr # Nil
          /\ verifyErr # Nil
          /\ checkErr = verifyErr \/ checkErr.Kind = "DismissReview"
          /\ checkErr.Kind = "DismissReview" <=>
                (DismissCalls # << >>
                    /\ hostReviews[DismissCalls[Len(DismissCalls)]].State # "DISMISSED")
    /\ (cpc = "done" /\ checkErr = Nil) =>
          /\ mostRecentReviews # << >>
          /\ RequiredApproved
          /\ \/ ~External
             \/ ~ReviewedBeforeHead
             \/ (Called("GetCommit") /\ comparison = << 0 >> /\ commit[1] \in Trusted)

\* Every dismissal succeeded and check returned the policy violation of
\* verifyCommit.
C29_Witness ==
    /\ cpc = "done"
    /\ dismissed.cur # {}
    /\ verifyErr.Kind = "BadParameter"
    /\ checkErr = verifyErr

(***************************************************************************)
(* Properties of HasWorkflowRunApproval (checked under SpecPermit).        *)
(***************************************************************************)
\* The k-th comment is the one HasWorkflowRunApproval returned nil for.
Permitted(k) ==
    /\ ppc = "done" /\ approvalErr = Nil
    /\ commentCalls # << >>
    /\ k = comment

\* The k-th comment was tried by the loop and did not permit the run.
Refused(k) ==
    /\ ppc \in {"ranging", "done"}
    /\ k \in DOMAIN comments
    /\ k < comment

OnHead(c) == c.CommitID = pr.HeadSHA
HasPhrase(c) == \E k \in 1..(Len(c.Body) - 5) : SubSeq(c.Body, k, k + 5) = "run ci"
ByOwner(c) == c.AuthorAssociation = "OWNER"
ByAdmin(c) == c.Login \in Range(Reviewers[""])

\* C16 (as stated; refuted): a comment permits the run iff it is on the head
\* commit, contains "run ci", is by an OWNER and its author is in the default
\* reviewers.
C16_Original ==
    \A k \in DOMAIN comments :
        /\ Permitted(k) =>
              (OnHead(comments[k]) /\ HasPhrase(comments[k])
                  /\ ByOwner(comments[k]) /\ ByAdmin(comments[k]))
        /\ Refused(k) =>
              ~(OnHead(comments[k]) /\ HasPhrase(comments[k])
                  /\ ByOwner(comments[k]) /\ ByAdmin(comments[k]))

\* C17 (as stated; refuted): a comment whose author association is not
\* OWNER never permits the run.
C17_Original ==
    \A k \in DOMAIN comments :
        comments[k].AuthorAssociation # "OWNER" => ~Permitted(k)

\* C18 (as stated; refuted): a comment created after now does not permit the
\* run.
C18_Original ==
    \A k \in DOMAIN comments : Permitted(k) => comments[k].CreatedAt <= now

\* C18: the creation time of a comment is not read: a comment permits the
\* run or not whatever its creation time is, a comment is refused only for
\* its commit, its body or its author, and a comment on the head commit with
\* the phrase by an admin permits the run also when it was created after now.
C18_CreationTimeNotRead ==
    \A k \in DOMAIN comments :
        /\ \A t \in {1, 3} :
              commentPermitsRun([comments[k] EXCEPT !.CreatedAt = t])
                  <=> commentPermitsRun(comments[k])
        /\ Refused(k) =>
              ~(OnHead(comments[k]) /\ HasPhrase(comments[k]) /\ ByAdmin(comments[k]))
        /\ Permitted(k) =>
              (OnHead(comments[k]) /\ HasPhrase(comments[k]) /\ ByAdmin(comments[k]))

\* A comment created after now has permitted the run.
C18_Witness ==
    \E k \in DOMAIN comments : Permitted(k) /\ comments[k].CreatedAt > now

\* HasWorkflowRunApproval listed the comments and none permitted the run.
NoneApproved ==
    /\ ppc = "done"
    /\ approvalErr # Nil
    /\ approvalErr.Kind # "ListComments"

\* The condition a comment fails first, in the order of the claim.
Failing(c) ==
    IF ~OnHead(c) THEN "commit"
    ELSE IF ~HasPhrase(c) THEN "phrase"
    ELSE IF ~ByOwner(c) THEN "association"
    ELSE IF ~ByAdmin(c) THEN "admin"
    ELSE "none"

\* What HasWorkflowRunApproval returns for an external author's pull request
\* with the comments cs.
Outcome(cs) ==
    IF \E k \in DOMAIN cs : commentPermitsRun(cs[k]) THEN Nil ELSE NotApproved

\* C19 (as stated; refuted): the error for a pull request whose only comment
\* fails one condition differs from the error for a comment that fails
\* another condition.
C19_Original ==
    (NoneApproved /\ Len(comments) = 1) =>
        \A c \in Comments :
            (~commentPermitsRun(c) /\ Failing(c) # Failing(comments[1])) =>
                approvalErr # Outcome(<< c >>)

\* C19: when no comment permits the run HasWorkflowRunApproval returns one
\* and the same error, the BadParameter "workflow runs have not been approved
\* for this pull request", whatever the conditions the comments fail (and for
\* no comment at all); it differs from the error of a failed ListComments.
C19_OneErrorForEveryRefusal ==
    /\ NoneApproved =>
          /\ approvalErr =
                BadParameter("workflow runs have not been approved for this pull request")
          /\ \A k \in DOMAIN comments : ~commentPermitsRun(comments[k])
          /\ approvalErr = Outcome(comments)
          /\ approvalErr # HostError("ListComments", 0)
    /\ (ppc = "done" /\ approvalErr = Nil /\ commentCalls # << >>) =>
          Outcome(comments) = Nil
    /\ \A c \in Comments : ~commentPermitsRun(c) => Outcome(<< c >>) = Outcome(<< >>)

\* Two comments that fail different conditions were refused with the error.
C19_Witness ==
    /\ NoneApproved
    /\ Len(comments) = 2
    /\ ~OnHead(comments[1])
    /\ OnHead(comments[2]) /\ ~HasPhrase(comments[2])

\* The ListComments call of this invocation failed: the loop did not start.
ListFailed ==
    /\ ppc \in {"done", "panic"}
    /\ commentCalls # << >>
    /\ comment = 0

\* C30 (as stated; refuted): for an internal author HasWorkflowRunApproval
\* returns nil and lists no comment; for an external author it returns nil
\* iff a fetched comment satisfies commentPermitsRun and the error "workflow
\* runs have not been approved" otherwise; a failed ListComments call is
\* returned as an error.
C30_Original ==
    /\ (ppc = "done" /\ HasEntry(pr.Author)) =>
          (approvalErr = Nil /\ commentCalls = << >> /\ comment = 0)
    /\ (ppc = "done" /\ ~HasEntry(pr.Author) /\ ~ListFailed) =>
          /\ approvalErr = Nil <=> \E k \in DOMAIN comments : commentPermitsRun(comments[k])
          /\ approvalErr # Nil =>
                approvalErr =
                    BadParameter("workflow runs have not been approved for this pull request")
    /\ ListFailed =>
          (ppc = "done" /\ approvalErr = HostError("ListComments", 0))

(***************************************************************************)
(* Properties of the rerun (checked under SpecRerun).                      *)
(***************************************************************************)
\* The runs of workflow w on the branch of the pull request.
RunsOnPullBranch(w) ==
    { r \in hostRuns : r.WorkflowID = w /\ r.HeadBranch = pr.BranchName }

\* The rerun calls of this invocation that name workflow w.
RerunCallsOf(w) == { k \in DOMAIN rerunCalls : rerunCalls[k].Workflow = w }

\* The workflows whose redoMostRecentRun has returned nil in this invocation.
Redone ==
    IF rpc = "done" /\ rerunErr = Nil
    THEN { getWorkflowLoop(workflows, CheckWorkflow), getWorkflowLoop(workflows, AssignWorkflow) }
    ELSE IF rerunName = AssignWorkflow
         THEN { getWorkflowLoop(workflows, CheckWorkflow) }
         ELSE {}

\* The resolved workflow had no run to rerun.
NoRunFound ==
    /\ rpc = "done"
    /\ rerunErr = NotFound
    /\ rerunWorkflow # 0
    /\ rerunRuns = << >>

\* C22: for a resolved workflow with at least one fetched run exactly one
\* rerun call is issued, and its target has the greatest creation time among
\* the fetched runs; with an empty fetched list the operation fails with the
\* not-found error and no rerun call is issued for the workflow.
C22_RerunMostRecent ==
    /\ \A k \in DOMAIN rerunCalls :
          \E r \in RunsOnPullBranch(rerunCalls[k].Workflow) :
             /\ r.ID = rerunCalls[k].Run
             /\ \A q \in RunsOnPullBranch(rerunCalls[k].Workflow) : q.CreatedAt <= r.CreatedAt
    /\ \A w \in WorkflowIDs : Cardinality(RerunCallsOf(w)) <= 1
    /\ \A w \in Redone :
          RunsOnPullBranch(w) # {} /\ Cardinality(RerunCallsOf(w)) = 1
    /\ (rpc = "RerunWorkflowByID") => rerunRuns # << >>
    /\ (rpc = "done" /\ rerunWorkflow # 0 /\ rerunRuns = << >>) =>
          (rerunErr \in {NotFound, HostError("ListWorkflowRunsByID", 0)}
             /\ RerunCallsOf(rerunWorkflow) = {})
    /\ (rpc = "done" /\ rerunWorkflow # 0 /\ RunsOnPullBranch(rerunWorkflow) = {}
          /\ rerunErr # HostError("ListWorkflowRunsByID", 0)) => NoRunFound

\* Both workflows were rerun, and the Check workflow had an older run on the
\* branch that was passed over.
C22_Witness ==
    /\ rpc = "done"
    /\ rerunErr = Nil
    /\ Len(rerunCalls) = 2
    /\ \E q \in RunsOnPullBranch(rerunCalls[1].Workflow) :
          /\ q.ID < rerunCalls[1].Run
          /\ \A r \in RunsOnPullBranch(rerunCalls[1].Workflow) :
                r.ID = rerunCalls[1].Run => q.CreatedAt < r.CreatedAt

\* All the runs of workflow w in the repository, whatever their branch.
RunsOfWorkflow(w) == { r \in hostRuns : r.WorkflowID = w }

\* C23 (as stated; refuted): the run rerun is the most recent run of the
\* workflow across every branch of the repository.
C23_Original ==
    \A k \in DOMAIN rerunCalls :
       \A q \in RunsOfWorkflow(rerunCalls[k].Workflow) :
          \E r \in RunsOfWorkflow(rerunCalls[k].Workflow) :
             r.ID = rerunCalls[k].Run /\ q.CreatedAt <= r.CreatedAt

\* C23 (amended): the runs are fetched with the branch of the pull request
\* as filter: the run rerun is a run on that branch, no older than any other
\* run of the workflow on that branch, and a workflow whose runs are all on
\* other branches is not rerun, the operation failing with not-found.
C23_RerunOnPullBranch ==
    /\ \A k \in DOMAIN rerunCalls :
          \E r \in RunsOfWorkflow(rerunCalls[k].Workflow) :
             /\ r.ID = rerunCalls[k].Run
             /\ r.HeadBranch = pr.BranchName
             /\ \A q \in RunsOfWorkflow(rerunCalls[k].Workflow) :
                   q.HeadBranch = pr.BranchName => q.CreatedAt <= r.CreatedAt
    /\ \A n \in 1..Len(rerunRuns) : rerunRuns[n].HeadBranch = pr.BranchName
    /\ (rpc = "done" /\ rerunWorkflow # 0 /\ rerunErr # HostError("ListWorkflowRunsByID", 0)
          /\ \A r \in RunsOfWorkflow(rerunWorkflow) : r.HeadBranch # pr.BranchName) =>
          (rerunErr = NotFound /\ RerunCallsOf(rerunWorkflow) = {})

\* A run on the branch of the pull request was rerun although the workflow
\* has a newer run on another branch.
C23_Witness ==
    /\ rerunCalls # << >>
    /\ \E r, q \in RunsOfWorkflow(rerunCalls[1].Workflow) :
          /\ r.ID = rerunCalls[1].Run
          /\ q.HeadBranch # pr.BranchName
          /\ q.CreatedAt > r.CreatedAt

(***************************************************************************)
(* Properties of the sweep (checked under SpecSweep).                      *)
(***************************************************************************)
\* The sweep returned nil.
Swept == spc = "done" /\ sweepErr = Nil

\* C24 (as stated; refuted): when the sweep returns nil, Prune was invoked
\* exactly once for every open pull request, with the base branch of that
\* pull request.
C24_Original ==
    Swept =>
       /\ Len(pruned) = Len(pullReqs)
       /\ \A k \in DOMAIN pruned : pruned[k] = pullReqs[k].Base.Ref

\* C24 (amended): Prune is invoked for the open pull requests in the order of
\* the listing, each time with the head branch of the pull request; a sweep
\* that returns nil has invoked it exactly once for every pull request; a
\* Prune that fails ends the sweep with that error, the pull requests after
\* it are not pruned; when the listing fails none is pruned.
C24_PrunesHeadBranches ==
    /\ Len(pruned) <= Len(pullReqs)
    /\ \A k \in DOMAIN pruned : pruned[k] = pullReqs[k].Head.Ref
    /\ Swept => Len(pruned) = Len(pullReqs)
    /\ spc \in {"ranging", "pruning"} =>
          Len(pruned) = (IF spc = "pruning" THEN pull ELSE pull - 1)
    /\ (spc = "done" /\ sweepErr # Nil) =>
          IF pruned = << >>
          THEN sweepErr = HostError("List", 0)
          ELSE sweepErr = err /\ pc = "done" /\ Len(pruned) = pull
                 /\ branch = pullReqs[pull].Head.Ref
    /\ spc = "pruning" => branch = pullReqs[pull].Head.Ref

\* Two pull requests with different head branches were swept, neither with
\* the base branch.
C24_Witness ==
    /\ Swept
    /\ Len(pruned) = 2
    /\ pruned[1] # pruned[2]
    /\ \A k \in DOMAIN pruned : pruned[k] # pullReqs[k].Base.Ref
    /\ hostRuns # runs0

\* The runs a prune for pull request p targets in the run set rs.
Targets(rs, p) ==
    { r \in rs : r.WorkflowID = getWorkflowLoop(workflows, CheckWorkflow)
                   /\ r.HeadBranch = p.Head.Ref }

\* No two runs of one workflow on one branch were created at the same time.
NoTies(rs) ==
    \A r, q \in rs :
       (r.WorkflowID = q.WorkflowID /\ r.HeadBranch = q.HeadBranch
          /\ r.CreatedAt = q.CreatedAt) => r = q

DismissInvoked == pc # "idle"

\* No review has been fetched, evaluated or dismissed by this Check.
NoReviewTouched ==
    /\ calls = << >>
    /\ mostRecentReviews = << >>
    /\ dismissed.cur = {}
    /\ verifyErr = Nil

\* C26: Check dismisses stale runs inline iff the author is internal, and
\* before it fetches or evaluates reviews: for an internal author a failed
\* dismissal ends Check with that error, no review having been fetched,
\* evaluated or dismissed; for an external author Check issues no delete call
\* for a workflow run at all.
C26_DismissBeforeReviews ==
    /\ cpc # "idle" => (DismissInvoked <=> HasEntry(pr.Author))
    /\ DismissInvoked => branch = pr.BranchName
    /\ ~HasEntry(pr.Author) => (deleteCalls = << >> /\ hist.removed = {} /\ pc = "idle")
    /\ (HasEntry(pr.Author) /\ ~NoReviewTouched) => (pc = "done" /\ err = Nil)
    /\ cpc = "DismissStaleWorkflowRuns" => NoReviewTouched
    /\ (pc = "done" /\ err # Nil) =>
          /\ cpc \in {"DismissStaleWorkflowRuns", "done"}
          /\ NoReviewTouched
          /\ cpc = "done" => checkErr = err
    /\ (cpc = "done" /\ HasEntry(pr.Author) /\ checkErr = Nil) => (pc = "done" /\ err = Nil)

\* Check for an internal author ended with the error of a delete call that
\* failed after another run had been deleted; no review was touched.
C26_Witness ==
    /\ cpc = "done"
    /\ HasEntry(pr.Author)
    /\ checkErr = err
    /\ err.Kind = "DeleteRun"
    /\ Len(deleteCalls) = 2
    /\ hostReviews # << >>
    /\ NoReviewTouched

=============================================================================
